---- MODULE Spec2Model ----
(***************************************************************************)
(* Model of the named-dimension tensor core of phiml/math/_tensors.py:     *)
(* flat tensors (NativeTensor), implicit stacks (TensorStack), name-driven *)
(* broadcasting, the memoization caches and the equality-mode stack.       *)
(*                                                                         *)
(* A Shape is a sequence of dimensions [name, size, type, per]; `per` is   *)
(* the list of per-component sizes of a non-uniform dimension (empty for a *)
(* uniform one, whose size is `size`).  A native buffer is a record        *)
(* [err, sizes, data] with data a function from 0-based index tuples to    *)
(* integers.  A failed call yields a value whose err/type names the error. *)
(***************************************************************************)
EXTENDS Integers, Sequences, FiniteSets, TLC

VARIABLES
    op2,    \* a binary operation a op b: [pc, a, b, fn, r]
    flat,   \* a flat tensor and the methods applied to it: [pc, t, steps, last]
    fc,     \* a flat tensor object under repeated _cache(): [pc, t0, hist]
    race7,  \* NativeTensor._cache() against a reader: [pc, obj, old, read, seen_native, seen_shape]
    race8,  \* two callers of TensorStack._cache(): [pc, at, st, val, ret]
    stk,    \* a TensorStack object under single-threaded use: [pc, comps, o, was_cached, res]
    eq,     \* the equality-mode stack: [pc, modes, scopes, unwinding, raised_in, failed]
    tree,   \* a nested structure taken apart and put together: [pc, x, skeleton, tensors, y]
    pk      \* a tensor whose dimensions are packed and unpacked: [pc, t, ...]

vars == <<op2, flat, fc, race7, race8, stk, eq, tree, pk>>

\* The value of the variables a specification does not use
Idle == [pc |-> "idle"]

-----------------------------------------------------------------------------
(* Generic helpers *)

Range(s) == {s[i] : i \in DOMAIN s}

RECURSIVE SeqSum(_)
SeqSum(s) == IF s = <<>> THEN 0 ELSE s[1] + SeqSum(Tail(s))

\* The subsequence of s whose elements satisfy Keep (a set), order kept.
RECURSIVE Filter(_, _)
Filter(s, keep) ==
    IF s = <<>> THEN <<>>
    ELSE IF s[1] \in keep THEN <<s[1]>> \o Filter(Tail(s), keep)
    ELSE Filter(Tail(s), keep)

\* Position of e in s (1-based), 0 when absent.
PosOf(s, e) == IF \E i \in DOMAIN s : s[i] = e
               THEN CHOOSE i \in DOMAIN s : s[i] = e /\ \A j \in 1..(i - 1) : s[j] # e
               ELSE 0

Reverse(s) == [i \in 1..Len(s) |-> s[Len(s) + 1 - i]]

Max2(a, b) == IF a >= b THEN a ELSE b

Min2(a, b) == IF a <= b THEN a ELSE b

\* Selectors of one axis: everything, one position, or a slice start:stop
SelAll == [kind |-> "all", i |-> 0, start |-> 0, stop |-> 0]

SelInt(i) == [kind |-> "int", i |-> i, start |-> 0, stop |-> 0]

SelSlice(a, b) == [kind |-> "slice", i |-> 0, start |-> a, stop |-> b]

\* len(range(*slice(start, stop).indices(size))) for 0 <= start, stop
SlicedSize(sel, size) ==
    IF sel.kind = "all" THEN size
    ELSE LET hi == Min2(sel.stop, size)
             lo == Min2(sel.start, size)
         IN  IF hi > lo THEN hi - lo ELSE 0

-----------------------------------------------------------------------------
(* Shape model (phiml/math/_shape.py) *)

Dim(n, k, t) == [name |-> n, size |-> k, type |-> t, per |-> <<>>]

names(shape) == [i \in DOMAIN shape |-> shape[i].name]

sizes(shape) == [i \in DOMAIN shape |-> shape[i].size]

NameSet(shape) == {shape[i].name : i \in DOMAIN shape}

\* name in shape
HasDim(shape, n) == n \in NameSet(shape)

\* Shape.index(name), 1-based
index(shape, n) == PosOf(names(shape), n)

get_size(shape, n) == shape[index(shape, n)].size

is_uniform(shape) == \A i \in DOMAIN shape : shape[i].per = <<>>

is_non_uniform(shape) == ~is_uniform(shape)

\* Shape.without(names)
without(shape, ns) == Filter(shape, {d \in Range(shape) : d.name \notin ns})

\* Shape.only(names, reorder=False): the dimensions listed, in the shape's order
only(shape, ns) == Filter(shape, {d \in Range(shape) : d.name \in ns})

\* Shape.only(order, reorder=True): the dimensions listed, in the order of `order`
only_reorder(shape, order) ==
    LET kept == Filter(order, NameSet(shape))
    IN  [i \in DOMAIN kept |-> shape[index(shape, kept[i])]]

\* Two dimensions of one name can be merged: same type, and equal sizes.
DimsAgree(d1, d2) == d1.type = d2.type /\ d1.size = d2.size /\ d1.per = d2.per

\* A conflict between two shapes: a shared name with different size or type.
Conflict(s1, s2) ==
    \E i \in DOMAIN s1, j \in DOMAIN s2 :
        s1[i].name = s2[j].name /\ ~DimsAgree(s1[i], s2[j])

\* merge_shapes / Shape.__and__: name-union; raises IncompatibleShapes on conflict.
merge_shapes(s1, s2) == s1 \o without(s2, NameSet(s1))

\* `small in big`: every dimension of small is a dimension of big with the same size
ShapeIn(small, big) ==
    \A i \in DOMAIN small :
        \E j \in DOMAIN big : big[j].name = small[i].name /\ DimsAgree(big[j], small[i])

\* Shape.__contains__ for a Shape: `item in shape`, decided on the names
shape_contains(shape, item) == NameSet(item) \subseteq NameSet(shape)

\* Shape.with_sizes(other: Shape): the sizes of the dimensions `other` has
with_sizes_of(shape, other) ==
    [i \in DOMAIN shape |->
        IF HasDim(other, shape[i].name)
        THEN [shape[i] EXCEPT !.size = get_size(other, shape[i].name)]
        ELSE shape[i]]

\* Shape.after_gather(selection): selection maps names to selectors; an integer
\* removes the dimension, a slice resizes it, other names are ignored
after_gather(shape, selection) ==
    LET kept == Filter(shape, {d \in Range(shape) :
                    ~(d.name \in DOMAIN selection /\ selection[d.name].kind = "int")})
    IN  [k \in DOMAIN kept |->
            IF kept[k].name \in DOMAIN selection
            THEN [kept[k] EXCEPT !.size = SlicedSize(selection[kept[k].name], kept[k].size)]
            ELSE kept[k]]

\* Shape.with_sizes(sizes)
with_sizes(shape, szs) == [i \in DOMAIN shape |-> [shape[i] EXCEPT !.size = szs[i]]]

-----------------------------------------------------------------------------
(* Backend capability interface: dense row-major buffers *)

RECURSIVE SeqMax(_)
SeqMax(s) == IF s = <<>> THEN 0 ELSE LET m == SeqMax(Tail(s)) IN IF s[1] >= m THEN s[1] ELSE m

\* All index tuples of a buffer with the given axis sizes
Idx(szs) == {i \in [1..Len(szs) -> 0..(SeqMax(szs) - 1)] : \A k \in 1..Len(szs) : i[k] < szs[k]}

Buf(szs, f) == [err |-> "none", sizes |-> szs, data |-> f]

ErrBuf(e) == [err |-> e, sizes |-> <<>>, data |-> <<>>]

\* backend.transpose(x, perm): axis k of the result is axis perm[k] of x
transpose(x, perm) ==
    LET szs == [k \in DOMAIN perm |-> x.sizes[perm[k]]]
    IN  Buf(szs, [i \in Idx(szs) |->
                    x.data[[a \in DOMAIN perm |-> i[PosOf(perm, a)]]]])

\* x[tuple(slices)] with slices of slice(None) / None: `keep` says, per result
\* axis, whether it is an axis of x (TRUE) or a new axis of size 1 (FALSE)
expand_dims(x, keep) ==
    LET src(k) == Cardinality({j \in 1..k : keep[j]})
        szs == [k \in DOMAIN keep |-> IF keep[k] THEN x.sizes[src(k)] ELSE 1]
        kept == Filter([k \in DOMAIN keep |-> k], {k \in DOMAIN keep : keep[k]})
    IN  Buf(szs, [i \in Idx(szs) |-> x.data[[a \in DOMAIN kept |-> i[kept[a]]]]])

\* backend.tile(x, multiples)
tile(x, multiples) ==
    LET szs == [k \in DOMAIN multiples |-> x.sizes[k] * multiples[k]]
    IN  Buf(szs, [i \in Idx(szs) |->
                    x.data[[k \in DOMAIN multiples |-> i[k] % x.sizes[k]]]])

\* Elementwise binary function with NumPy broadcasting: a rank-0 operand pairs
\* with everything, otherwise ranks are equal and sizes are equal or 1.
Broadcastable(x, y) ==
    \/ Len(x.sizes) = 0 \/ Len(y.sizes) = 0
    \/ /\ Len(x.sizes) = Len(y.sizes)
       /\ \A k \in DOMAIN x.sizes :
            x.sizes[k] = y.sizes[k] \/ x.sizes[k] = 1 \/ y.sizes[k] = 1

\* float('nan'), as a number that no buffer holds: it equals nothing, itself
\* included
NaN == 0 - 1000

ApplyFn(fn, a, b) ==
    CASE fn = "add" -> a + b
      [] fn = "sub" -> a - b
      [] fn = "eq" -> a = b /\ a # NaN /\ b # NaN
      [] fn = "ne" -> a # b \/ a = NaN \/ b = NaN
      [] OTHER -> a

elementwise2(fn, x, y) ==
    IF x.err # "none" THEN x
    ELSE IF y.err # "none" THEN y
    ELSE IF ~Broadcastable(x, y) THEN ErrBuf("ValueError")
    ELSE LET szs == IF Len(x.sizes) = 0 THEN y.sizes
                    ELSE IF Len(y.sizes) = 0 THEN x.sizes
                    ELSE [k \in DOMAIN x.sizes |-> Max2(x.sizes[k], y.sizes[k])]
             at(z, i) == IF Len(z.sizes) = 0 THEN z.data[<<>>]
                         ELSE z.data[[k \in DOMAIN i |-> IF z.sizes[k] = 1 THEN 0 ELSE i[k]]]
         IN  Buf(szs, [i \in Idx(szs) |-> ApplyFn(fn, at(x, i), at(y, i))])

\* Replace element k of index tuple i / drop it / insert v before position k
DropAt(i, k) == [a \in 1..(Len(i) - 1) |-> IF a < k THEN i[a] ELSE i[a + 1]]

InsertAt(i, k, v) == [a \in 1..(Len(i) + 1) |-> IF a < k THEN i[a] ELSE IF a = k THEN v ELSE i[a - 1]]

\* backend.concat(values, axis): sizes must agree on every other axis
concat(values, axis) ==
    IF \E v \in Range(values) : v.err # "none"
    THEN (CHOOSE v \in Range(values) : v.err # "none")
    ELSE IF \E v \in Range(values) :
                \/ Len(v.sizes) # Len(values[1].sizes)
                \/ DropAt(v.sizes, axis) # DropAt(values[1].sizes, axis)
    THEN ErrBuf("ValueError")
    ELSE LET offset(c) == SeqSum([j \in 1..(c - 1) |-> values[j].sizes[axis]])
             total == offset(Len(values) + 1)
             szs == [values[1].sizes EXCEPT ![axis] = total]
             comp(p) == CHOOSE c \in DOMAIN values :
                            offset(c) <= p /\ p < offset(c) + values[c].sizes[axis]
         IN  Buf(szs, [i \in Idx(szs) |->
                 values[comp(i[axis])].data[[i EXCEPT ![axis] = i[axis] - offset(comp(i[axis]))]]])

\* backend.stack(values, axis): all sizes must agree; a new axis is inserted
stack(values, axis) ==
    IF \E v \in Range(values) : v.err # "none"
    THEN (CHOOSE v \in Range(values) : v.err # "none")
    ELSE IF \E v \in Range(values) : v.sizes # values[1].sizes
    THEN ErrBuf("ValueError")
    ELSE LET szs == InsertAt(values[1].sizes, axis, Len(values))
         IN  Buf(szs, [i \in Idx(szs) |-> values[i[axis] + 1].data[DropAt(i, axis)]])

\* backend.unstack(x, axis): one buffer per position along axis
unstack(x, axis) ==
    LET szs == DropAt(x.sizes, axis)
    IN  [p \in 1..x.sizes[axis] |->
            Buf(szs, [i \in Idx(szs) |-> x.data[InsertAt(i, axis, p - 1)]])]

\* backend.multi_slice(x, slices): x[slices], one selector per axis
multi_slice(x, slices) ==
    IF \E a \in DOMAIN slices : slices[a].kind = "int" /\ slices[a].i >= x.sizes[a]
    THEN ErrBuf("IndexError")
    ELSE LET kept == Filter([a \in DOMAIN slices |-> a],
                            {a \in DOMAIN slices : slices[a].kind # "int"})
             szs == [k \in DOMAIN kept |-> SlicedSize(slices[kept[k]], x.sizes[kept[k]])]
         IN  Buf(szs, [i \in Idx(szs) |->
                 x.data[[a \in DOMAIN slices |->
                           IF slices[a].kind = "int" THEN slices[a].i
                           ELSE IF slices[a].kind = "all" THEN i[PosOf(kept, a)]
                           ELSE Min2(slices[a].start, x.sizes[a]) + i[PosOf(kept, a)]]]])

\* Elementwise unary function
elementwise1(fn, x) ==
    Buf(x.sizes, [i \in DOMAIN x.data |-> IF fn = "neg" THEN 0 - x.data[i] ELSE x.data[i]])

-----------------------------------------------------------------------------
(* Tensor values.  type is "NativeTensor", "TensorStack", "None",           *)
(* "NotImplemented" or "Error" (a raised exception, named by `error`).      *)

None == [type |-> "None"]

NotImplemented == [type |-> "NotImplemented"]

Raise(e) == [type |-> "Error", error |-> e]

IsTensor(t) == t.type \in {"NativeTensor", "TensorStack"}

IsError(t) == t.type = "Error"

rank(t) == Len(t.shape)

-----------------------------------------------------------------------------
(* class NativeTensor *)

\* NativeTensor.__init__ (DEBUG_CHECKS off: nothing is asserted)
NativeTensor(native_tensor, native_shape, expanded_shape) ==
    [type |-> "NativeTensor", native |-> native_tensor,
     native_shape |-> native_shape, shape |-> expanded_shape]

\* Shape._perm: where each dimension of the reordered shape sits in the native shape
native_perm(native_shape, order) ==
    LET reordered == only_reorder(native_shape, order)
    IN  [k \in DOMAIN reordered |-> index(native_shape, reordered[k].name)]

\* NativeTensor.native without the transposition of the buffer's own axes
NativeTensor_native_untransposed(self, order, singleton_for_const) ==
    LET multiples == [k \in DOMAIN order |->
                        IF HasDim(self.shape, order[k]) /\ ~HasDim(self.native_shape, order[k])
                        THEN get_size(self.shape, order[k]) ELSE 1]
        tiled(expanded) == IF ~singleton_for_const THEN tile(expanded, multiples) ELSE expanded
    IN  IF ~(\A n \in NameSet(self.native_shape) : n \in Range(order))
        THEN ErrBuf("AssertionError")
        ELSE IF Len(order) = Len(self.native_shape) THEN self.native
        ELSE tiled(expand_dims(self.native,
                               [k \in DOMAIN order |-> HasDim(self.native_shape, order[k])]))

\* NativeTensor.native answering an order that leaves out stored dimensions
\* with the buffer as it is stored
NativeTensor_native_unasserted(self, order, singleton_for_const) ==
    LET multiples == [k \in DOMAIN order |->
                        IF HasDim(self.shape, order[k]) /\ ~HasDim(self.native_shape, order[k])
                        THEN get_size(self.shape, order[k]) ELSE 1]
        tiled(expanded) == IF ~singleton_for_const THEN tile(expanded, multiples) ELSE expanded
        expand(perm, transposed) ==
            IF Len(order) = Len(perm) THEN transposed
            ELSE tiled(expand_dims(transposed,
                                   [k \in DOMAIN order |-> HasDim(self.native_shape, order[k])]))
        transposed_by(perm) ==
            expand(perm, IF perm # [k \in DOMAIN perm |-> k]
                         THEN transpose(self.native, perm) ELSE self.native)
    IN  IF ~(\A n \in NameSet(self.native_shape) : n \in Range(order))
        THEN self.native
        ELSE IF order = names(self.native_shape) THEN self.native
        ELSE transposed_by(native_perm(self.native_shape, order))

\* NativeTensor.native tiling every new axis, singleton_for_const or not
NativeTensor_native_always_tiled(self, order, singleton_for_const) ==
    LET multiples == [k \in DOMAIN order |->
                        IF HasDim(self.shape, order[k]) /\ ~HasDim(self.native_shape, order[k])
                        THEN get_size(self.shape, order[k]) ELSE 1]
        expand(perm, transposed) ==
            IF Len(order) = Len(perm) THEN transposed
            ELSE tile(expand_dims(transposed,
                                  [k \in DOMAIN order |-> HasDim(self.native_shape, order[k])]),
                      multiples)
        transposed_by(perm) ==
            expand(perm, IF perm # [k \in DOMAIN perm |-> k]
                         THEN transpose(self.native, perm) ELSE self.native)
    IN  IF ~(\A n \in NameSet(self.native_shape) : n \in Range(order))
        THEN ErrBuf("AssertionError")
        ELSE IF order = names(self.native_shape) THEN self.native
        ELSE transposed_by(native_perm(self.native_shape, order))

\* NativeTensor.native(order, singleton_for_const); order is a tuple of names
NativeTensor_native(self, order, singleton_for_const) ==
    LET multiples == [k \in DOMAIN order |->
                        IF HasDim(self.shape, order[k]) /\ ~HasDim(self.native_shape, order[k])
                        THEN get_size(self.shape, order[k]) ELSE 1]
        tiled(expanded) == IF ~singleton_for_const THEN tile(expanded, multiples) ELSE expanded
        expand(perm, transposed) ==
            IF Len(order) = Len(perm) THEN transposed
            ELSE tiled(expand_dims(transposed,
                                   [k \in DOMAIN order |-> HasDim(self.native_shape, order[k])]))
        transposed_by(perm) ==
            expand(perm, IF perm # [k \in DOMAIN perm |-> k]
                         THEN transpose(self.native, perm) ELSE self.native)
    IN  IF ~(\A n \in NameSet(self.native_shape) : n \in Range(order))
        THEN ErrBuf("AssertionError")
        ELSE IF order = names(self.native_shape) THEN self.native
        ELSE transposed_by(native_perm(self.native_shape, order))

\* NativeTensor._op2 for `other` a Tensor; native_function is fn, applied with
\* its arguments switched for a reflected operator (__radd__, __rsub__)
NativeTensor_op2(self, other, fn, reflected) ==
    LET broadcast_shape == merge_shapes(self.native_shape, other.native_shape)
        nat(t) == NativeTensor_native(t, IF rank(t) > 0 THEN names(broadcast_shape)
                                         ELSE names(t.shape), rank(t) > 0)
        native_function(native1, native2) ==
            IF reflected THEN elementwise2(fn, native2, native1)
            ELSE elementwise2(fn, native1, native2)
        wrapped(result_tensor) ==
            IF result_tensor.err # "none" THEN Raise(result_tensor.err)
            ELSE IF Conflict(self.shape, other.shape) THEN Raise("IncompatibleShapes")
            ELSE NativeTensor(result_tensor, broadcast_shape, merge_shapes(self.shape, other.shape))
    IN  IF other.type # "NativeTensor" THEN NotImplemented
        ELSE IF Conflict(self.native_shape, other.native_shape) THEN Raise("IncompatibleShapes")
        ELSE wrapped(native_function(nat(self), nat(other)))

\* NativeTensor._unstack(dim): [err, items]
NativeTensor_unstack(self, dim) ==
    LET new_shape == without(self.shape, {dim})
        new_native_shape == without(self.native_shape, {dim})
    IN  IF HasDim(self.native_shape, dim)
        THEN LET tensors == unstack(self.native, index(self.native_shape, dim))
             IN  [err |-> "none",
                  items |-> [p \in DOMAIN tensors |-> NativeTensor(tensors[p], new_native_shape, new_shape)]]
        ELSE IF ~HasDim(self.shape, dim) THEN [err |-> "AssertionError", items |-> <<>>]
        ELSE [err |-> "none",
              items |-> [p \in 1..get_size(self.shape, dim) |->
                            NativeTensor(self.native, new_native_shape, new_shape)]]

\* NativeTensor._cache() with the buffer expanded and the native shape kept
NativeTensor_cache_shape_kept(self) ==
    IF self.shape = self.native_shape THEN self
    ELSE [self EXCEPT !.native = NativeTensor_native(self, names(self.shape), FALSE)]

\* NativeTensor._cache(): the object after the call (it is left as it was when
\* native() raises)
NativeTensor_cache(self) ==
    IF self.shape = self.native_shape THEN self
    ELSE LET native == NativeTensor_native(self, names(self.shape), FALSE)
         IN  IF native.err # "none" THEN self
             ELSE [self EXCEPT !.native = native, !.native_shape = self.shape]

\* NativeTensor._cached(dims); dims_is_None stands for dims=None
NativeTensor_cached(self, dims_is_None, dims) ==
    IF ~dims_is_None /\ Conflict(dims, self.native_shape) THEN Raise("IncompatibleShapes")
    ELSE IF dims_is_None \/ shape_contains(merge_shapes(dims, self.native_shape), self.shape)
    THEN LET native == NativeTensor_native(self, names(self.shape), FALSE)
         IN  IF native.err # "none" THEN Raise(native.err)
             ELSE NativeTensor(native, self.shape, self.shape)
    ELSE LET new_native_shape == merge_shapes(dims, self.native_shape)
             tmp_tensor == NativeTensor(self.native, self.native_shape, new_native_shape)
             native == NativeTensor_native(tmp_tensor, names(new_native_shape), FALSE)
         IN  IF native.err # "none" THEN Raise(native.err)
             ELSE NativeTensor(native, new_native_shape, self.shape)

\* NativeTensor._with_shape_replaced(new_shape): names and types of new_shape on
\* the sizes of the tensor
NativeTensor_with_shape_replaced(self, new_shape) ==
    IF Len(new_shape) # Len(self.shape) THEN Raise("IncompatibleShapes")
    ELSE IF ~shape_contains(self.shape, self.native_shape) THEN Raise("ValueError")
    ELSE LET renamed == [i \in DOMAIN new_shape |-> [new_shape[i] EXCEPT !.size = self.shape[i].size]]
             native_indices == [k \in DOMAIN self.native_shape |->
                                   index(self.shape, self.native_shape[k].name)]
             new_native_shape == [k \in DOMAIN native_indices |-> renamed[native_indices[k]]]
         IN  NativeTensor(self.native, new_native_shape, renamed)

\* NativeTensor._with_natives_replaced(natives), natives = [native]
NativeTensor_with_natives_replaced(self, native) ==
    IF Len(native.sizes) # Len(self.native_shape) THEN Raise("AssertionError")
    ELSE LET new_native_shape == with_sizes(self.native_shape, native.sizes)
             new_shape == with_sizes_of(self.shape, new_native_shape)
         IN  NativeTensor(native, new_native_shape, new_shape)

\* NativeTensor._getitem(selection), selection a dict from names to selectors
NativeTensor_getitem(self, selection) ==
    IF DOMAIN selection = {} THEN self
    ELSE IF \E n \in DOMAIN selection :
                ~HasDim(self.native_shape, n) /\ ~HasDim(self.shape, n) /\ selection[n].kind # "int"
    THEN Raise("AssertionError")
    ELSE LET selections == [k \in DOMAIN self.native_shape |->
                               IF self.native_shape[k].name \in DOMAIN selection
                               THEN selection[self.native_shape[k].name] ELSE SelAll]
             gathered == IF selections # <<>> THEN multi_slice(self.native, selections)
                         ELSE self.native
         IN  IF gathered.err # "none" THEN Raise(gathered.err)
             ELSE NativeTensor(gathered, after_gather(self.native_shape, selection),
                               after_gather(self.shape, selection))

\* expand_tensor(value, dims) for a flat value and uniform dims
expand_tensor(value, dims) ==
    IF dims = <<>> THEN value
    ELSE IF Conflict(dims, value.shape) THEN Raise("IncompatibleShapes")
    ELSE NativeTensor(value.native, value.native_shape, merge_shapes(dims, value.shape))

\* NativeTensor._op1
NativeTensor_op1(self, fn) == NativeTensor(elementwise1(fn, self.native), self.native_shape, self.shape)

-----------------------------------------------------------------------------
(* class TensorStack *)

\* shape_stack(stack_dim, *shapes): the stack dimension, then every dimension
\* of the components; a dimension whose size differs between components is
\* non-uniform and lists its size per component
shape_stack(stack_dim, shapes) ==
    LET RECURSIVE all_dims(_)
        all_dims(k) == IF k = 0 THEN <<>>
                       ELSE merge_shapes(all_dims(k - 1), shapes[k])
        inner == all_dims(Len(shapes))
        dim_of(c, n) == shapes[c][index(shapes[c], n)]
        uniform(n) == \A c \in DOMAIN shapes :
                        HasDim(shapes[c], n) /\ DimsAgree(dim_of(c, n), dim_of(1, n))
    IN  <<stack_dim>> \o
        [k \in DOMAIN inner |->
            IF uniform(inner[k].name) THEN inner[k]
            ELSE [inner[k] EXCEPT !.size = 0,
                    !.per = [c \in DOMAIN shapes |->
                               IF HasDim(shapes[c], inner[k].name)
                               THEN dim_of(c, inner[k].name).size ELSE 1]]]

\* TensorStack.__init__; a component that failed to evaluate raises first
TensorStack(components, stack_dim) ==
    IF \E c \in DOMAIN components : ~IsTensor(components[c])
    THEN components[CHOOSE c \in DOMAIN components :
                        ~IsTensor(components[c]) /\ \A j \in 1..(c - 1) : IsTensor(components[j])]
    ELSE IF \E c \in DOMAIN components : HasDim(components[c].shape, stack_dim.name)
    THEN Raise("AssertionError")
    ELSE LET sd == [stack_dim EXCEPT !.size = Len(components)]
         IN  [type |-> "TensorStack",
              tensors |-> components,
              stack_dim |-> sd,
              varying_shapes |-> \E i, j \in DOMAIN components :
                                    Conflict(components[i].shape, components[j].shape),
              shape |-> shape_stack(sd, [c \in DOMAIN components |-> components[c].shape]),
              cached |-> None]

\* TensorStack.requires_broadcast (sizes are always defined and nothing is traced)
requires_broadcast(self) ==
    self.varying_shapes \/ is_non_uniform(self.tensors[1].shape)

(* The components of a stack are flat tensors, and so is its cache: the    *)
(* calls on them below are those of NativeTensor.                          *)

\* TensorStack._cache() without the test of requires_broadcast (l.1362-1363)
TensorStack_cache_unguarded(self) ==
    LET wrapped(native) == IF native.err # "none" THEN Raise(native.err)
                           ELSE NativeTensor(native, self.shape, self.shape)
    IN  IF self.cached.type # "None" THEN self.cached
        ELSE wrapped(concat([c \in DOMAIN self.tensors |->
                                NativeTensor_native(self.tensors[c], names(self.shape), FALSE)],
                            index(self.shape, self.stack_dim.name)))

\* TensorStack._cache() concatenating the components in reverse
TensorStack_cache_reversed(self) ==
    IF self.cached.type # "None" THEN self.cached
    ELSE IF requires_broadcast(self) THEN None
    ELSE NativeTensor(concat(Reverse([c \in DOMAIN self.tensors |->
                                 NativeTensor_native(self.tensors[c], names(self.shape), FALSE)]),
                             index(self.shape, self.stack_dim.name)),
                      self.shape, self.shape)

\* TensorStack._cache(): the value of self._cached after the call.  Components
\* share their dimension names here, so the branch for non-uniform components
\* of a stack that needs no broadcast (l.1368-1377) is not reached.
TensorStack_cache(self) ==
    LET wrapped(native) == IF native.err # "none" THEN Raise(native.err)
                           ELSE NativeTensor(native, self.shape, self.shape)
    IN  IF self.cached.type # "None" THEN self.cached
        ELSE IF requires_broadcast(self) THEN None
        ELSE IF \A c \in DOMAIN self.tensors : is_uniform(self.tensors[c].shape)
        THEN wrapped(concat([c \in DOMAIN self.tensors |->
                                NativeTensor_native(self.tensors[c], names(self.shape), FALSE)],
                            index(self.shape, self.stack_dim.name)))
        ELSE Raise("NotImplementedError")

\* TensorStack.native(order, singleton_for_const)
TensorStack_native(self, order, singleton_for_const) ==
    LET inner_order == Filter(order, Range(order) \ {self.stack_dim.name})
        stacked(natives) ==
            IF \E c \in DOMAIN natives : natives[c].err # "none"
            THEN natives[CHOOSE c \in DOMAIN natives : natives[c].err # "none"]
            ELSE IF self.stack_dim.name \notin Range(order) THEN ErrBuf("AssertionError")
            ELSE stack(natives, PosOf(order, self.stack_dim.name))
        native_of(c) == IF IsError(c) THEN ErrBuf(c.error)
                        ELSE IF c.type = "None" THEN ErrBuf("AttributeError")
                        ELSE NativeTensor_native(c, order, FALSE)
    IN  IF self.cached.type # "None" THEN NativeTensor_native(self.cached, order, FALSE)
        ELSE IF names(without(self.shape, {self.stack_dim.name})) = inner_order
        THEN stacked([c \in DOMAIN self.tensors |->
                         NativeTensor_native(self.tensors[c], inner_order, FALSE)])
        ELSE IF is_non_uniform(self.shape) THEN ErrBuf("AssertionError")
        ELSE native_of(TensorStack_cache(self))

\* Tensor.native, by variant
Tensor_native(t, order, singleton_for_const) ==
    IF t.type = "NativeTensor" THEN NativeTensor_native(t, order, singleton_for_const)
    ELSE TensorStack_native(t, order, singleton_for_const)

\* zip(*lists): as many tuples as the shortest list has items
ZipLen(lists) == IF lists = <<>> THEN 0
                 ELSE CHOOSE n \in {Len(lists[k]) : k \in DOMAIN lists} :
                        \A k \in DOMAIN lists : n <= Len(lists[k])

\* TensorStack._unstack(dim) handing out the components last to first
TensorStack_unstack_reversed(self, dim) ==
    IF self.cached.type # "None" THEN NativeTensor_unstack(self.cached, dim)
    ELSE [err |-> "none", items |-> Reverse(self.tensors)]

\* TensorStack._unstack(dim): [err, items]
TensorStack_unstack(self, dim) ==
    LET checked(built) ==
            IF \E p \in DOMAIN built : IsError(built[p])
            THEN [err |-> built[CHOOSE p \in DOMAIN built : IsError(built[p])].error,
                  items |-> <<>>]
            ELSE [err |-> "none", items |-> built]
        zipped(unstacked) ==
            IF \E c \in DOMAIN unstacked : unstacked[c].err # "none"
            THEN [err |-> unstacked[CHOOSE c \in DOMAIN unstacked : unstacked[c].err # "none"].err,
                  items |-> <<>>]
            ELSE checked([p \in 1..ZipLen([c \in DOMAIN unstacked |-> unstacked[c].items]) |->
                             TensorStack([c \in DOMAIN unstacked |-> unstacked[c].items[p]],
                                         self.stack_dim)])
        unstack_of(c) == IF IsError(c) THEN [err |-> c.error, items |-> <<>>]
                         ELSE NativeTensor_unstack(c, dim)
    IN  IF self.cached.type # "None" THEN NativeTensor_unstack(self.cached, dim)
        ELSE IF dim = self.stack_dim.name THEN [err |-> "none", items |-> self.tensors]
        ELSE IF requires_broadcast(self)
        THEN zipped([c \in DOMAIN self.tensors |-> NativeTensor_unstack(self.tensors[c], dim)])
        ELSE unstack_of(TensorStack_cache(self))

\* Tensor._unstack, by variant
Tensor_unstack(t, dim) ==
    IF t.type = "NativeTensor" THEN NativeTensor_unstack(t, dim)
    ELSE TensorStack_unstack(t, dim)

RECURSIVE Tensor_op2(_, _, _, _), PyOp(_, _, _)

\* broadcastable_native_tensors(self, other) followed by native_function and
\* the wrapping of its result (TensorStack._op2 l.1466-1468)
broadcast_op2(self, other, fn, reflected) ==
    LET broadcast_shape == merge_shapes(self.shape, other.shape)
        nat(t) == Tensor_native(t, IF rank(t) > 0 THEN names(broadcast_shape)
                                   ELSE names(t.shape), FALSE)
        native_function(native1, native2) ==
            IF reflected THEN elementwise2(fn, native2, native1)
            ELSE elementwise2(fn, native1, native2)
        wrapped(result_tensor) ==
            IF result_tensor.err # "none" THEN Raise(result_tensor.err)
            ELSE NativeTensor(result_tensor, broadcast_shape, broadcast_shape)
    IN  IF Conflict(self.shape, other.shape) THEN Raise("IncompatibleShapes")
        ELSE wrapped(native_function(nat(self), nat(other)))

\* TensorStack._op2 for `other` a Tensor.  `operator` is the Python-level
\* operator the caller passed: x op y, or y op x for a reflected method.
TensorStack_op2(self, other, fn, reflected) ==
    LET operator(t1, t2) == IF reflected THEN PyOp(fn, t2, t1) ELSE PyOp(fn, t1, t2)
        with_other_slices(other_slices) ==
            IF other_slices.err # "none" THEN Raise(other_slices.err)
            ELSE TensorStack([k \in 1..Min2(Len(self.tensors), Len(other_slices.items)) |->
                                 operator(self.tensors[k], other_slices.items[k])],
                             self.stack_dim)
        with_self_slices(self_slices) ==
            IF self_slices.err # "none" THEN Raise(self_slices.err)
            ELSE TensorStack([k \in 1..Min2(Len(self_slices.items), Len(other.tensors)) |->
                                 operator(self_slices.items[k], other.tensors[k])],
                             self.stack_dim)
    IN  IF requires_broadcast(self)
        THEN IF HasDim(other.shape, self.stack_dim.name)
             THEN with_other_slices(Tensor_unstack(other, self.stack_dim.name))
             ELSE TensorStack([k \in DOMAIN self.tensors |-> operator(self.tensors[k], other)],
                              self.stack_dim)
        ELSE IF other.type = "NativeTensor"
                \/ (other.type = "TensorStack" /\ ~requires_broadcast(other))
        THEN broadcast_op2(self, other, fn, reflected)
        ELSE IF other.type = "TensorStack" /\ requires_broadcast(other)
        THEN IF HasDim(self.shape, other.stack_dim.name)
             THEN with_self_slices(Tensor_unstack(self, other.stack_dim.name))
             ELSE TensorStack([k \in DOMAIN other.tensors |-> operator(self, other.tensors[k])],
                              self.stack_dim)
        ELSE NotImplemented

\* Tensor._op2, by variant
Tensor_op2(self, other, fn, reflected) ==
    IF self.type = "NativeTensor" THEN NativeTensor_op2(self, other, fn, reflected)
    ELSE TensorStack_op2(self, other, fn, reflected)

\* The Python binary operator x op y (Tensor.__add__ / __sub__ and, when the
\* receiver answers NotImplemented, the reflected method of the other operand)
PyOp(fn, x, y) ==
    LET reflected_result(r) == IF r.type # "NotImplemented" THEN r ELSE Raise("TypeError")
        result(r) == IF r.type # "NotImplemented" THEN r
                     ELSE reflected_result(Tensor_op2(y, x, fn, TRUE))
    IN  result(Tensor_op2(x, y, fn, FALSE))

\* Restriction of a selection dict to a set of names
Restrict(selection, ns) == [n \in DOMAIN selection \cap ns |-> selection[n]]

\* Tensor.__getitem__ for a dict on a flat tensor: dimensions the tensor does
\* not have are skipped (l.429-430), the rest goes to _getitem
NativeTensor_getitem_dict(t, item) == NativeTensor_getitem(t, Restrict(item, NameSet(t.shape)))

\* TensorStack._getitem(selection) for a stack of flat tensors
TensorStack_getitem(self, selection) ==
    IF self.cached.type # "None" THEN NativeTensor_getitem(self.cached, selection)
    ELSE IF (self.stack_dim.name \notin DOMAIN selection \/ Cardinality(DOMAIN selection) # 1)
            /\ ~requires_broadcast(self)
    THEN LET c == TensorStack_cache(self)
         IN  IF IsError(c) THEN c ELSE NativeTensor_getitem(c, selection)
    ELSE LET inner_dict == Restrict(selection, DOMAIN selection \ {self.stack_dim.name})
             tensors == IF DOMAIN inner_dict # {}
                        THEN [c \in DOMAIN self.tensors |->
                                 NativeTensor_getitem_dict(self.tensors[c], inner_dict)]
                        ELSE self.tensors
         IN  IF \E c \in DOMAIN tensors : IsError(tensors[c])
             THEN tensors[CHOOSE c \in DOMAIN tensors : IsError(tensors[c])]
             ELSE IF self.stack_dim.name \in DOMAIN selection
             THEN LET sel == selection[self.stack_dim.name]
                  IN  IF sel.kind = "int"
                      THEN IF sel.i < Len(tensors) THEN tensors[sel.i + 1] ELSE Raise("IndexError")
                      ELSE TensorStack(SubSeq(tensors, Min2(sel.start, Len(tensors)) + 1,
                                              Min2(sel.stop, Len(tensors))),
                                       self.stack_dim)
             ELSE TensorStack(tensors, self.stack_dim)

\* TensorStack._op1
TensorStack_op1(self, fn) ==
    IF requires_broadcast(self)
    THEN TensorStack([c \in DOMAIN self.tensors |-> NativeTensor_op1(self.tensors[c], fn)],
                     self.stack_dim)
    ELSE LET c == TensorStack_cache(self)
         IN  IF IsError(c) THEN c ELSE NativeTensor_op1(c, fn)

\* TensorStack._natives for a stack of flat tensors
TensorStack_natives(self) ==
    IF self.cached.type # "None" THEN <<self.cached.native>>
    ELSE [c \in DOMAIN self.tensors |-> self.tensors[c].native]

\* NativeTensor._spec_dict
NativeTensor_spec_dict(self) ==
    [type |-> "NativeTensor", native_shape |-> self.native_shape, shape |-> self.shape]

\* TensorStack._spec_dict for a stack of flat tensors
TensorStack_spec_dict(self) ==
    IF self.cached.type # "None" THEN NativeTensor_spec_dict(self.cached)
    ELSE [type |-> "TensorStack", stack_dim |-> self.stack_dim,
          tensors |-> [c \in DOMAIN self.tensors |-> NativeTensor_spec_dict(self.tensors[c])]]

\* TensorStack._simplify
TensorStack_simplify(self) == IF self.cached.type # "None" THEN self.cached ELSE self

(* The object a method leaves behind.  o = [st, writes]: the TensorStack     *)
(* and the number of assignments to self._cached executed on it so far.     *)

\* The call self._cache() reaches the assignment of l.1366 without the test
\* of l.1361
TensorStack_cache_assigns_untested(self) == ~requires_broadcast(self)

\* The call self._cache() reaches the assignment of l.1366
TensorStack_cache_assigns(self) ==
    /\ self.cached.type = "None"
    /\ ~requires_broadcast(self)
    /\ IsTensor(TensorStack_cache(self))

\* self._cache()
After_cache(o) ==
    IF TensorStack_cache_assigns(o.st)
    THEN [st |-> [o.st EXCEPT !.cached = TensorStack_cache(o.st)],
          writes |-> o.writes + 1]
    ELSE o

\* self._expand(): l.1504-1507
After_expand(o) ==
    After_cache(IF requires_broadcast(o.st)
                THEN [o EXCEPT !.st.tensors = [c \in DOMAIN @ |-> NativeTensor_cache(@[c])]]
                ELSE o)

\* self.native(order): the cache is filled at l.1401
After_native(o, order) ==
    IF /\ o.st.cached.type = "None"
       /\ names(without(o.st.shape, {o.st.stack_dim.name}))
             # Filter(order, Range(order) \ {o.st.stack_dim.name})
       /\ ~is_non_uniform(o.st.shape)
    THEN After_cache(o) ELSE o

\* self._getitem(selection): the cache is filled at l.1419
After_getitem(o, selection) ==
    IF /\ o.st.cached.type = "None"
       /\ (o.st.stack_dim.name \notin DOMAIN selection \/ Cardinality(DOMAIN selection) # 1)
       /\ ~requires_broadcast(o.st)
    THEN After_cache(o) ELSE o

\* self._unstack(dim): the cache is filled at l.1447
After_unstack(o, dim) ==
    IF o.st.cached.type = "None" /\ dim # o.st.stack_dim.name /\ ~requires_broadcast(o.st)
    THEN After_cache(o) ELSE o

\* self._op1(fn): the cache is filled at l.1454
After_op1(o) == IF requires_broadcast(o.st) THEN o ELSE After_cache(o)

\* self._op2(other) with a flat `other`: native() of l.1771 fills the cache
After_op2_flat(o, other) ==
    IF requires_broadcast(o.st) \/ Conflict(o.st.shape, other.shape) THEN o
    ELSE After_native(o, names(merge_shapes(o.st.shape, other.shape)))

\* self._op2(other): a stack `other` that needs no broadcast goes the way of a
\* flat one; one that does has self unstacked (l.1471) or combined with each
\* of its components in turn (l.1474)
RECURSIVE After_op2_each(_, _, _)
After_op2_each(o, others, k) ==
    IF k > Len(others) THEN o
    ELSE After_op2_each(After_op2_flat(o, others[k]), others, k + 1)

After_op2(o, other) ==
    IF requires_broadcast(o.st) THEN o
    ELSE IF other.type = "NativeTensor" \/ ~requires_broadcast(other)
    THEN After_op2_flat(o, other)
    ELSE IF HasDim(o.st.shape, other.stack_dim.name)
    THEN After_unstack(o, other.stack_dim.name)
    ELSE After_op2_each(o, other.tensors, 1)

-----------------------------------------------------------------------------
(* What a tensor means: the element at a named index.  An index is a       *)
(* function from dimension names to positions.                              *)

\* All named indices of a uniform shape
Indices(shape) ==
    {ix \in [NameSet(shape) -> 0..(SeqMax(sizes(shape)) - 1)] :
        \A n \in NameSet(shape) : ix[n] < get_size(shape, n)}

\* Element of a flat tensor at a named index of (a superset of) its shape
ElemNative(t, ix) == t.native.data[[k \in DOMAIN t.native_shape |-> ix[t.native_shape[k].name]]]

\* The buffer of a flat tensor has the sizes its native shape states
WellFormedNative(t) == t.native.err = "none" /\ t.native.sizes = sizes(t.native_shape)

RECURSIVE AllIndices(_), Elem(_, _)

\* All named indices of a tensor; for a stack, those of each component
\* together with the component's position along the stack dimension
AllIndices(t) ==
    IF t.type = "NativeTensor" THEN Indices(t.shape)
    ELSE UNION {{[n \in DOMAIN ix \cup {t.stack_dim.name} |->
                    IF n = t.stack_dim.name THEN c - 1 ELSE ix[n]] :
                 ix \in AllIndices(t.tensors[c])} : c \in DOMAIN t.tensors}

\* Element of a tensor at a named index
Elem(t, ix) ==
    IF t.type = "NativeTensor" THEN ElemNative(t, ix)
    ELSE IF t.cached.type # "None" THEN Elem(t.cached, ix)
    ELSE Elem(t.tensors[ix[t.stack_dim.name] + 1], ix)

\* A tensor as a function from its named indices to its elements
Meaning(t) == [ix \in AllIndices(t) |-> Elem(t, ix)]

-----------------------------------------------------------------------------
(* Inputs *)

MaxSize == 3
MaxRank == 2

RECURSIVE Pow3(_)
Pow3(k) == IF k = 0 THEN 1 ELSE 3 * Pow3(k - 1)

\* A buffer whose elements are pairwise distinct: seed + sum of i[k] * 3^(k-1)
Gen(szs, seed) ==
    Buf(szs, [i \in Idx(szs) |-> seed + SeqSum([k \in DOMAIN i |-> i[k] * Pow3(k - 1)])])

\* The dimensions flat operands are built from: batch b=2, channel c=3 and
\* spatial x of any size 2..MaxSize
FlatDims == {Dim("b", 2, "batch"), Dim("c", 3, "channel")}
            \cup {Dim("x", k, "spatial") : k \in 2..MaxSize}

\* Sequences over a set without repeated dimension names
RECURSIVE ShapesOver(_, _)
ShapesOver(dims, n) ==
    IF n = 0 THEN {<<>>}
    ELSE LET shorter == ShapesOver(dims, n - 1)
         IN  shorter \cup {Append(sh, d) : sh \in {q \in shorter : Len(q) = n - 1}, d \in dims}

UniqueNames(sh) == \A i, j \in DOMAIN sh : sh[i].name = sh[j].name => i = j

FlatShapes == {sh \in ShapesOver(FlatDims, MaxRank) : UniqueNames(sh)}

\* The native shapes a flat tensor of a given logical shape can have: any
\* subset of its dimensions, in the logical order or reversed
NativeShapesOf(sh) ==
    UNION {{only(sh, ns), Reverse(only(sh, ns))} : ns \in SUBSET NameSet(sh)}

FlatTensors(seed) ==
    UNION {{NativeTensor(Gen(sizes(ns), seed), ns, sh) : ns \in NativeShapesOf(sh)} :
           sh \in FlatShapes}

MaxComponents == 3

\* Components of stacks: all of one family, so that they share their
\* dimension names as stack() makes them.  Family "x": shape (x=k) with the
\* buffer holding x or expanded along it; "s": scalars; "h": shape (h=2).
Family(f, seed) ==
    CASE f = "x" -> LET X(k) == <<Dim("x", k, "spatial")>>
                    IN  {NativeTensor(Gen(<<k>>, seed), X(k), X(k)) : k \in {2, 3}}
                        \cup {NativeTensor(Gen(<<>>, seed), <<>>, X(2))}
      [] f = "s" -> {NativeTensor(Gen(<<>>, seed), <<>>, <<>>)}
      [] f = "h" -> LET H == <<Dim("h", 2, "batch")>>
                    IN  {NativeTensor(Gen(<<2>>, seed), H, H), NativeTensor(Gen(<<>>, seed), <<>>, H)}

\* Component lists of n tensors of family f; component c is seeded seed + 10*c
RECURSIVE ComponentLists(_, _, _)
ComponentLists(f, n, seed) ==
    IF n = 0 THEN {<<>>}
    ELSE {Append(l, t) : l \in ComponentLists(f, n - 1, seed), t \in Family(f, seed + 10 * n)}

Stacks(seed) ==
    {TensorStack(l, Dim("g", 0, "batch")) :
        l \in UNION {ComponentLists("x", n, seed) \cup ComponentLists("s", n, seed) :
                      n \in 2..MaxComponents}}
    \cup {TensorStack(l, Dim("g", 0, "batch")) : l \in ComponentLists("h", 2, seed)}
    \cup {TensorStack(l, Dim("h", 0, "batch")) : l \in ComponentLists("x", 2, seed)}

\* Flat operands of stacks: with and without the stack dimension g, of the
\* stacks' sizes and of another one
StackPartners(seed) ==
    {NativeTensor(Gen(sizes(sh), seed), sh, sh) :
        sh \in {<<>>, <<Dim("g", 2, "batch")>>, <<Dim("g", 3, "batch")>>,
                 <<Dim("x", 2, "spatial")>>, <<Dim("x", 3, "spatial")>>,
                 <<Dim("g", 2, "batch"), Dim("x", 2, "spatial")>>,
                 <<Dim("x", 2, "spatial"), Dim("g", 3, "batch")>>,
                 <<Dim("h", 2, "batch")>>}}

Fns == {"add", "sub"}

-----------------------------------------------------------------------------
(* Binary operations: a op b for operands drawn from the inputs *)

Op2Init ==
    /\ flat = Idle /\ fc = Idle /\ race7 = Idle /\ race8 = Idle /\ stk = Idle /\ eq = Idle /\ tree = Idle /\ pk = Idle
    /\ \E fn \in Fns :
        \/ \E a \in FlatTensors(0), b \in FlatTensors(100) :
              op2 = [pc |-> "call", a |-> a, b |-> b, fn |-> fn, r |-> None]
        \/ \E a \in Stacks(0) \cup StackPartners(0), b \in Stacks(100) \cup StackPartners(100) :
              /\ "TensorStack" \in {a.type, b.type}
              /\ op2 = [pc |-> "call", a |-> a, b |-> b, fn |-> fn, r |-> None]

\* a op b, through Tensor.__add__ / __sub__
Op2Call ==
    /\ op2.pc = "call"
    /\ op2' = [op2 EXCEPT !.pc = "done", !.r = PyOp(op2.fn, op2.a, op2.b)]
    /\ UNCHANGED <<flat, fc, race7, race8, stk, eq, tree, pk>>

Op2Next == Op2Call

SpecOp2 == Op2Init /\ [][Op2Next]_vars

-----------------------------------------------------------------------------
(* Properties of binary operations *)

\* ix, cut down to the dimensions of t, is an index of t
ValidIx(t, ix) ==
    \E jx \in AllIndices(t) : \A n \in DOMAIN jx : n \in DOMAIN ix /\ ix[n] = jx[n]

\* Name-driven broadcasting, stated on elements: the indices of the result are
\* the indices over the names of both operands that are indices of each operand,
\* and the element there is fn of the operands' elements there
AllNames(t) == UNION {DOMAIN ix : ix \in AllIndices(t)}

BroadcastIndices(a, b) ==
    {ix \in [AllNames(a) \cup AllNames(b) -> 0..(Max2(MaxSize, MaxComponents) - 1)] :
        ValidIx(a, ix) /\ ValidIx(b, ix)}

IsBroadcastOf(r, fn, a, b) ==
    /\ AllIndices(r) = BroadcastIndices(a, b)
    /\ \A ix \in AllIndices(r) : Elem(r, ix) = ApplyFn(fn, Elem(a, ix), Elem(b, ix))

BothFlat == op2.a.type = "NativeTensor" /\ op2.b.type = "NativeTensor"

\* C1: for flat tensors a, b whose same-named dimensions agree, a op b is a flat
\* tensor whose shape is the name-union of a.shape and b.shape (each operand's
\* dimensions with their sizes), whose buffer matches its native shape, and whose
\* element at every index is fn(a[index], b[index]); rank-0 operands included.
C1_FlatBroadcast ==
    (op2.pc = "done" /\ BothFlat /\ ~Conflict(op2.a.shape, op2.b.shape)) =>
        /\ op2.r.type = "NativeTensor"
        /\ WellFormedNative(op2.r)
        /\ NameSet(op2.r.shape) = NameSet(op2.a.shape) \cup NameSet(op2.b.shape)
        /\ ShapeIn(op2.a.shape, op2.r.shape) /\ ShapeIn(op2.b.shape, op2.r.shape)
        /\ UniqueNames(op2.r.shape)
        /\ IsBroadcastOf(op2.r, op2.fn, op2.a, op2.b)

\* C1 witness: a of shape (b=2, c=3) held transposed in its buffer, minus b of
\* shape (c=3), has been computed
C1_Witness ==
    /\ op2.pc = "done" /\ BothFlat /\ op2.fn = "sub"
    /\ names(op2.a.shape) = <<"b", "c">> /\ names(op2.a.native_shape) = <<"c", "b">>
    /\ names(op2.b.shape) = <<"c">> /\ names(op2.b.native_shape) = <<"c">>
    /\ op2.r.type = "NativeTensor"

\* Both operands have a dimension of one name with different concrete sizes
SizeMismatch(a, b) ==
    \E i \in DOMAIN a.shape, j \in DOMAIN b.shape :
        /\ a.shape[i].name = b.shape[j].name
        /\ a.shape[i].per = <<>> /\ b.shape[j].per = <<>>
        /\ a.shape[i].size # b.shape[j].size

\* C2: a binary operation between two tensors that have a dimension of the same
\* name with different concrete sizes fails, for every pair of variants.
C2_MismatchFails ==
    (op2.pc = "done" /\ SizeMismatch(op2.a, op2.b)) => IsError(op2.r)

\* C2 for flat operands only
C2_FlatMismatchFails ==
    (op2.pc = "done" /\ BothFlat /\ SizeMismatch(op2.a, op2.b)) => IsError(op2.r)

Ragged(t) == t.type = "TensorStack" /\ requires_broadcast(t)

\* Slice i of `other` along dimension d as the ragged operand pairs it with
\* its component i: the whole of `other` when it lacks d
ShapeOfSlice(other, d, i) ==
    IF ~HasDim(other.shape, d) THEN other.shape
    ELSE IF other.type = "TensorStack" /\ other.stack_dim.name = d THEN other.tensors[i].shape
    ELSE without(other.shape, {d})

\* The ragged operand s and the other operand o can be combined: o has as many
\* slices along s's stack dimension as s has components (or lacks it), and no
\* component conflicts with its slice
Combinable(s, o) ==
    /\ HasDim(o.shape, s.stack_dim.name) => get_size(o.shape, s.stack_dim.name) = Len(s.tensors)
    /\ \A i \in DOMAIN s.tensors :
          ~Conflict(s.tensors[i].shape, ShapeOfSlice(o, s.stack_dim.name, i))

\* The result r of a op b is a stack along the ragged operand s's dimension,
\* one component per component of s, holding the broadcast elements
IsRaggedResult(r, s, fn, a, b) ==
    /\ r.type = "TensorStack"
    /\ r.stack_dim.name = s.stack_dim.name
    /\ Len(r.tensors) = Len(s.tensors)
    /\ IsBroadcastOf(r, fn, a, b)

\* C5: if either operand is a stack that requires broadcast, the result is a
\* stack along that operand's stack dimension with one component per component
\* of it, component i combining component i with slice i of the other operand
\* (or the whole other operand); also when the receiver is a uniform stack and
\* the ragged stack is the other operand.
C5_RaggedOp2 ==
    /\ (op2.pc = "done" /\ Ragged(op2.a) /\ Combinable(op2.a, op2.b))
            => IsRaggedResult(op2.r, op2.a, op2.fn, op2.a, op2.b)
    /\ (op2.pc = "done" /\ ~Ragged(op2.a) /\ op2.a.type = "TensorStack"
            /\ Ragged(op2.b) /\ Combinable(op2.b, op2.a))
            => IsRaggedResult(op2.r, op2.b, op2.fn, op2.a, op2.b)

-----------------------------------------------------------------------------
(* Flat tensors under the methods that derive one NativeTensor from another *)

MaxSteps == 2

\* native shape is a subset of logical shape: every native dimension is a
\* logical dimension of the same size (the assertion of NativeTensor.__init__
\* under DEBUG_CHECKS, with the sizes)
NativeInShape(t) == ShapeIn(t.native_shape, t.shape)

\* Arguments of the methods
FlatOthers == {t \in FlatTensors(100) : Len(t.shape) <= 1}

FlatSelections ==
    UNION {{[n \in {d} |-> sel] : sel \in {SelInt(0), SelInt(1), SelSlice(0, 1), SelSlice(1, 2)}} :
           d \in {"b", "c", "x", "z"}}

FlatDimArgs ==
    {<<>>, <<Dim("b", 2, "batch")>>, <<Dim("c", 3, "channel")>>, <<Dim("x", 2, "spatial")>>,
     <<Dim("x", 3, "spatial")>>, <<Dim("c", 3, "channel"), Dim("b", 2, "batch")>>}

\* Another name for a dimension
Renamed(n) ==
    CASE n = "b" -> "u" [] n = "c" -> "v" [] n = "x" -> "w"
      [] n = "u" -> "b" [] n = "v" -> "c" [] n = "w" -> "x" [] OTHER -> n

\* Shapes to rename a tensor to: every dimension renamed, the tensor's own
\* dimensions reversed, or a shape of rank 1
RenamedShapes(t) ==
    {[i \in DOMAIN t.shape |-> Dim(Renamed(t.shape[i].name), 0, "batch")],
     [i \in DOMAIN t.shape |-> [t.shape[Len(t.shape) + 1 - i] EXCEPT !.size = 0]],
     <<Dim("u", 0, "batch")>>}

\* Buffers to replace the native of a tensor with: the rank of its native,
\* every size 2, or one axis more
ReplacementNatives(t) ==
    {Gen([k \in DOMAIN t.native_shape |-> 2], 200),
     Gen([k \in 1..(Len(t.native_shape) + 1) |-> 2], 200)}

FlatInit ==
    /\ op2 = Idle /\ fc = Idle /\ race7 = Idle /\ race8 = Idle /\ stk = Idle /\ eq = Idle /\ tree = Idle /\ pk = Idle
    /\ \E t \in FlatTensors(0) :
          flat = [pc |-> "run", t |-> t, steps |-> 0, last |-> "new"]

\* The tensor a method returned becomes the tensor under test; a call that
\* raises or answers NotImplemented leaves it
FlatStep(r, method) ==
    /\ flat.pc = "run"
    /\ flat.steps < MaxSteps
    /\ r.type = "NativeTensor"
    /\ flat' = [flat EXCEPT !.t = r, !.steps = @ + 1, !.last = method]
    /\ UNCHANGED <<op2, fc, race7, race8, stk, eq, tree, pk>>

FlatOp1 == FlatStep(NativeTensor_op1(flat.t, "neg"), "_op1")

FlatOp2 == \E other \in FlatOthers, reflected \in BOOLEAN :
              FlatStep(NativeTensor_op2(flat.t, other, "add", reflected), "_op2")

FlatGetItem == \E selection \in FlatSelections :
                  FlatStep(NativeTensor_getitem(flat.t, selection), "_getitem")

FlatUnstack == \E dim \in {"b", "c", "x"} :
                  LET u == NativeTensor_unstack(flat.t, dim)
                  IN  /\ u.err = "none"
                      /\ \E p \in DOMAIN u.items : FlatStep(u.items[p], "_unstack")

FlatWithShapeReplaced == \E new_shape \in RenamedShapes(flat.t) :
                            FlatStep(NativeTensor_with_shape_replaced(flat.t, new_shape),
                                     "_with_shape_replaced")

FlatWithNativesReplaced == \E native \in ReplacementNatives(flat.t) :
                              FlatStep(NativeTensor_with_natives_replaced(flat.t, native),
                                       "_with_natives_replaced")

FlatCache == FlatStep(NativeTensor_cache(flat.t), "_cache")

FlatCached == \E dims_is_None \in BOOLEAN, dims \in FlatDimArgs :
                 FlatStep(NativeTensor_cached(flat.t, dims_is_None, dims), "_cached")

FlatExpand == \E dims \in FlatDimArgs : FlatStep(expand_tensor(flat.t, dims), "expand_tensor")

FlatNext ==
    \/ FlatOp1
    \/ FlatOp2
    \/ FlatGetItem
    \/ FlatUnstack
    \/ FlatWithShapeReplaced
    \/ FlatWithNativesReplaced
    \/ FlatCache
    \/ FlatCached
    \/ FlatExpand

SpecFlat == FlatInit /\ [][FlatNext]_vars

\* C3: every NativeTensor reached from one whose native shape is a subset of
\* its logical shape, by _op1, _op2, _getitem, _unstack, _with_shape_replaced,
\* _with_natives_replaced, _cache, _cached(dims) and expand_tensor, has every
\* dimension of its native shape in its logical shape with the same size.
C3_NativeSubsetOfShape == flat.pc = "run" => NativeInShape(flat.t)

\* The same for every method but _cached(dims)
C3_ExceptCached ==
    [][(NativeInShape(flat.t) /\ ~NativeInShape(flat'.t)) => flat'.last = "_cached"]_vars

-----------------------------------------------------------------------------
(* One flat tensor object under repeated _cache() *)

MaxCalls == 3

\* All orderings of a set of names
RECURSIVE Orders(_)
Orders(S) == IF S = {} THEN {<<>>}
             ELSE UNION {{<<n>> \o o : o \in Orders(S \ {n})} : n \in S}

\* The orders native() is read with: the dimensions of the tensor in any
\* order, alone or with one more name
ReadOrders(t) ==
    Orders(NameSet(t.shape)) \cup {Append(o, "z") : o \in Orders(NameSet(t.shape))}

CacheInit ==
    /\ op2 = Idle /\ flat = Idle /\ race7 = Idle /\ race8 = Idle /\ stk = Idle /\ eq = Idle /\ tree = Idle /\ pk = Idle
    /\ \E t \in FlatTensors(0) : fc = [pc |-> "run", t0 |-> t, hist |-> <<>>]

\* The object as it is now: after the last call, or as constructed
CacheObj == IF fc.hist = <<>> THEN fc.t0 ELSE fc.hist[Len(fc.hist)]

\* self._cache(); hist lists the object after each call
CacheCall ==
    /\ fc.pc = "run"
    /\ Len(fc.hist) < MaxCalls
    /\ fc' = [fc EXCEPT !.hist = Append(@, NativeTensor_cache(CacheObj))]
    /\ UNCHANGED <<op2, flat, race7, race8, stk, eq, tree, pk>>

CacheNext == CacheCall

SpecCache == CacheInit /\ [][CacheNext]_vars

-----------------------------------------------------------------------------
(* NativeTensor._cache() in one thread, a reader of the same object in      *)
(* another.  The writer runs l.1206, l.1208 and l.1209 as separate steps;   *)
(* the reader takes the fields _native and _native_shape, one step each,    *)
(* in either order (native() reads the shape first, _cache() too).          *)

RaceInit ==
    /\ op2 = Idle /\ flat = Idle /\ fc = Idle /\ race8 = Idle /\ stk = Idle /\ eq = Idle /\ tree = Idle /\ pk = Idle
    /\ \E t \in FlatTensors(0) :
          race7 = [pc |-> "l1206", obj |-> t, old |-> t,
                   read |-> {}, seen_native |-> ErrBuf("unread"), seen_shape |-> <<>>]

\* l.1206-1207: if self._shape == self._native_shape: return
WriterCheck ==
    /\ race7.pc = "l1206"
    /\ race7' = [race7 EXCEPT !.pc = IF race7.obj.shape = race7.obj.native_shape
                                      THEN "done" ELSE "l1208"]
    /\ UNCHANGED <<op2, flat, fc, race8, stk, eq, tree, pk>>

\* l.1208: self._native = self.native(order=self._shape)
WriterAssignNative ==
    /\ race7.pc = "l1208"
    /\ race7' = [race7 EXCEPT !.pc = "l1209",
                    !.obj.native = NativeTensor_native(race7.obj, names(race7.obj.shape), FALSE)]
    /\ UNCHANGED <<op2, flat, fc, race8, stk, eq, tree, pk>>

\* l.1209: self._native_shape = self._shape
WriterAssignShape ==
    /\ race7.pc = "l1209"
    /\ race7' = [race7 EXCEPT !.pc = "done", !.obj.native_shape = race7.obj.shape]
    /\ UNCHANGED <<op2, flat, fc, race8, stk, eq, tree, pk>>

\* The reader loads self._native
ReaderLoadNative ==
    /\ race7.pc # "idle"
    /\ "_native" \notin race7.read
    /\ race7' = [race7 EXCEPT !.read = @ \cup {"_native"}, !.seen_native = race7.obj.native]
    /\ UNCHANGED <<op2, flat, fc, race8, stk, eq, tree, pk>>

\* The reader loads self._native_shape
ReaderLoadShape ==
    /\ race7.pc # "idle"
    /\ "_native_shape" \notin race7.read
    /\ race7' = [race7 EXCEPT !.read = @ \cup {"_native_shape"},
                               !.seen_shape = race7.obj.native_shape]
    /\ UNCHANGED <<op2, flat, fc, race8, stk, eq, tree, pk>>

RaceNext ==
    \/ WriterCheck
    \/ WriterAssignNative
    \/ WriterAssignShape
    \/ ReaderLoadNative
    \/ ReaderLoadShape

SpecCacheRace == RaceInit /\ [][RaceNext]_vars

\* C7: a reader never observes the expanded buffer together with the old
\* native shape, nor the old buffer together with the new native shape: the
\* pair it has read is the pair before _cache() or the pair after it.
C7_NoTornRead ==
    (race7.pc # "idle" /\ race7.read = {"_native", "_native_shape"}) =>
        \/ /\ race7.seen_native = race7.old.native
           /\ race7.seen_shape = race7.old.native_shape
        \/ /\ race7.seen_native = NativeTensor_cache(race7.old).native
           /\ race7.seen_shape = NativeTensor_cache(race7.old).native_shape

\* The same with the writer alone: before and after each of its steps the
\* object holds the old pair or the new one
C7_NoTornObject ==
    race7.pc # "idle" =>
        \/ /\ race7.obj.native = race7.old.native
           /\ race7.obj.native_shape = race7.old.native_shape
        \/ race7.obj = NativeTensor_cache(race7.old)

-----------------------------------------------------------------------------
(* Two callers of TensorStack._cache() on one uncached stack.  Each runs    *)
(* the test of l.1361-1362, the computation of l.1364-1365, the assignment  *)
(* of l.1366 and the return of l.1378 as separate steps.                    *)

Callers == {1, 2}

\* The stack as constructed, whatever its cache holds now
Uncached(st) == [st EXCEPT !.cached = None]

StackRaceInit ==
    /\ op2 = Idle /\ flat = Idle /\ fc = Idle /\ race7 = Idle /\ stk = Idle /\ eq = Idle /\ tree = Idle /\ pk = Idle
    /\ \E st \in Stacks(0) :
          race8 = [pc |-> "run", at |-> [i \in Callers |-> "l1361"], st |-> st,
                   val |-> [i \in Callers |-> None], ret |-> [i \in Callers |-> None]]

\* l.1361-1363: if self._cached is None: if self.requires_broadcast: return None
CallerTest(i) ==
    /\ race8.pc # "idle"
    /\ race8.at[i] = "l1361"
    /\ race8' = [race8 EXCEPT !.at[i] = IF race8.st.cached.type # "None" THEN "l1378"
                                         ELSE IF requires_broadcast(race8.st) THEN "done"
                                         ELSE "l1364"]
    /\ UNCHANGED <<op2, flat, fc, race7, stk, eq, tree, pk>>

\* l.1364-1365 and the right-hand side of l.1366: NativeTensor(native, self._shape)
CallerCompute(i) ==
    /\ race8.pc # "idle"
    /\ race8.at[i] = "l1364"
    /\ race8' = [race8 EXCEPT !.at[i] = "l1366",
                               !.val[i] = TensorStack_cache(Uncached(race8.st))]
    /\ UNCHANGED <<op2, flat, fc, race7, stk, eq, tree, pk>>

\* l.1366: self._cached = ...
CallerAssign(i) ==
    /\ race8.pc # "idle"
    /\ race8.at[i] = "l1366"
    /\ race8' = [race8 EXCEPT !.at[i] = "l1378", !.st.cached = race8.val[i]]
    /\ UNCHANGED <<op2, flat, fc, race7, stk, eq, tree, pk>>

\* l.1378: return self._cached
CallerReturn(i) ==
    /\ race8.pc # "idle"
    /\ race8.at[i] = "l1378"
    /\ race8' = [race8 EXCEPT !.at[i] = "done", !.ret[i] = race8.st.cached]
    /\ UNCHANGED <<op2, flat, fc, race7, stk, eq, tree, pk>>

StackRaceNext ==
    \E i \in Callers :
        \/ CallerTest(i)
        \/ CallerCompute(i)
        \/ CallerAssign(i)
        \/ CallerReturn(i)

SpecStackRace == StackRaceInit /\ [][StackRaceNext]_vars

\* t is a flat tensor with the shape and the elements of the stack st
EqualToStack(t, st) ==
    /\ t.type = "NativeTensor"
    /\ WellFormedNative(t)
    /\ t.shape = st.shape
    /\ Meaning(t) = Meaning(Uncached(st))

\* C8: when two callers race in _cache() on an uncached stack that needs no
\* broadcast, each computes a flat tensor with the shape and the elements of
\* the stack, and at every point _cached is None or such a tensor, whichever
\* assignment came last; so is what each caller returns.
C8_RaceEquivalent ==
    (race8.pc # "idle" /\ ~requires_broadcast(race8.st)) =>
        /\ race8.st.cached.type = "None" \/ EqualToStack(race8.st.cached, race8.st)
        /\ \A i \in Callers :
              /\ race8.at[i] \in {"l1366", "l1378", "done"}
                    => (race8.val[i].type = "None" \/ EqualToStack(race8.val[i], race8.st))
              /\ race8.at[i] = "l1366" => race8.val[i].type # "None"
              /\ race8.at[i] = "done" => EqualToStack(race8.ret[i], race8.st)

\* Both callers passed the test before either assigned, both assigned, and
\* the stack has components that differ in their elements
C8_Witness ==
    /\ race8.pc # "idle"
    /\ \A i \in Callers : race8.at[i] = "done" /\ race8.val[i].type = "NativeTensor"
    /\ race8.st.cached.type = "NativeTensor"
    /\ Len(race8.st.tensors) >= 2
    /\ Meaning(race8.st.tensors[1]) # Meaning(race8.st.tensors[2])

-----------------------------------------------------------------------------
(* One TensorStack object used from a single thread *)

MaxWrites == 2

StackSelections ==
    {[n \in {"g"} |-> sel] : sel \in {SelInt(0), SelInt(1), SelInt(2), SelSlice(0, 2), SelSlice(1, 3)}}
    \cup {[n \in {"x"} |-> sel] : sel \in {SelInt(0), SelSlice(0, 1)}}
    \cup {[n \in {"g", "x"} |-> SelInt(0)]}

\* The other operands of _op2: flat ones and a ragged stack along h
StackOthers ==
    StackPartners(100)
    \cup {TensorStack(l, Dim("h", 0, "batch")) : l \in ComponentLists("x", 2, 100)}

StackInit ==
    /\ op2 = Idle /\ flat = Idle /\ fc = Idle /\ race7 = Idle /\ race8 = Idle /\ eq = Idle /\ tree = Idle /\ pk = Idle
    /\ \E n \in 2..MaxComponents, f \in {"x", "s", "h"} :
          \E comps \in ComponentLists(f, n, 0) :
             stk = [pc |-> "run", comps |-> comps,
                    o |-> [st |-> TensorStack(comps, Dim("g", 0, "batch")), writes |-> 0],
                    was_cached |-> FALSE, res |-> [op |-> "__init__"]]

\* A method call: the object it leaves and what it returned
StackStep(o, res) ==
    /\ stk.pc = "run"
    /\ stk.o.writes < MaxWrites
    /\ stk' = [stk EXCEPT !.o = o, !.res = res, !.was_cached = stk.o.st.cached.type # "None"]
    /\ UNCHANGED <<op2, flat, fc, race7, race8, eq, tree, pk>>

StackCache ==
    StackStep(After_cache(stk.o), [op |-> "_cache", value |-> TensorStack_cache(stk.o.st)])

StackExpand == StackStep(After_expand(stk.o), [op |-> "_expand"])

StackNative ==
    \E order \in Orders(NameSet(stk.o.st.shape)) :
        StackStep(After_native(stk.o, order),
                  [op |-> "native", order |-> order, value |-> TensorStack_native(stk.o.st, order, FALSE)])

StackGetItem ==
    \E selection \in StackSelections :
        StackStep(After_getitem(stk.o, selection),
                  [op |-> "_getitem", value |-> TensorStack_getitem(stk.o.st, selection)])

StackUnstack ==
    \E dim \in {"g", "x", "h"} :
        StackStep(After_unstack(stk.o, dim),
                  [op |-> "_unstack", dim |-> dim, value |-> TensorStack_unstack(stk.o.st, dim)])

StackOp1 ==
    StackStep(After_op1(stk.o), [op |-> "_op1", value |-> TensorStack_op1(stk.o.st, "neg")])

StackOp2 ==
    \E other \in StackOthers :
        StackStep(After_op2(stk.o, other),
                  [op |-> "_op2", value |-> TensorStack_op2(stk.o.st, other, "add", FALSE)])

StackNatives == StackStep(stk.o, [op |-> "_natives", value |-> TensorStack_natives(stk.o.st)])

StackSpecDict == StackStep(stk.o, [op |-> "_spec_dict", value |-> TensorStack_spec_dict(stk.o.st)])

StackSimplify == StackStep(stk.o, [op |-> "_simplify", value |-> TensorStack_simplify(stk.o.st)])

StackNext ==
    \/ StackCache
    \/ StackExpand
    \/ StackNative
    \/ StackGetItem
    \/ StackUnstack
    \/ StackOp1
    \/ StackOp2
    \/ StackNatives
    \/ StackSpecDict
    \/ StackSimplify

SpecStack == StackInit /\ [][StackNext]_vars

\* C4: the stack dimension of a TensorStack has as its size the number of
\* components, and unstacking along it returns as many tensors, the k-th with
\* the shape and the elements of the k-th component; as long as the stack is
\* not cached these are the components themselves.
C4_UnstackReturnsComponents ==
    stk.pc = "run" =>
        /\ get_size(stk.o.st.shape, "g") = Len(stk.comps)
        /\ (stk.res.op = "_unstack" /\ stk.res.dim = "g") =>
              /\ stk.res.value.err = "none"
              /\ Len(stk.res.value.items) = Len(stk.comps)
              /\ \A k \in DOMAIN stk.comps :
                    /\ stk.res.value.items[k].shape = stk.comps[k].shape
                    /\ Meaning(stk.res.value.items[k]) = Meaning(stk.comps[k])
              /\ stk.o.st.cached.type = "None" => stk.res.value.items = stk.o.st.tensors

\* t1 of shape (x=2) and t2 of shape (x=3), both holding their elements, were
\* stacked and the stack has been unstacked along its stack dimension
C4_Witness ==
    /\ stk.pc = "run"
    /\ stk.res.op = "_unstack" /\ stk.res.dim = "g"
    /\ Len(stk.comps) = 2
    /\ sizes(stk.comps[1].native_shape) = <<2>>
    /\ sizes(stk.comps[2].native_shape) = <<3>>
    /\ stk.res.value.items = stk.comps

\* A cached stack of three components that differ has been unstacked along
\* its stack dimension
C4_WitnessCached ==
    /\ stk.pc = "run"
    /\ stk.res.op = "_unstack" /\ stk.res.dim = "g"
    /\ stk.o.st.cached.type = "NativeTensor"
    /\ Len(stk.comps) = 3

\* C9: in a single thread the cache of a TensorStack is written at most once:
\* once _cached is not None no method (_cache, _expand, native, _getitem,
\* _unstack, _op1, _op2, _natives, _spec_dict, _simplify) assigns it again or
\* changes it, and it is None exactly as long as nothing was assigned.
C9_WriteOnce ==
    [][stk.pc = "run" =>
         /\ stk'.o.writes <= 1
         /\ (stk.o.st.cached.type = "None") = (stk.o.writes = 0)
         /\ stk.o.st.cached.type # "None" =>
               (stk'.o.st.cached = stk.o.st.cached /\ stk'.o.writes = stk.o.writes)]_vars

\* _cache() has been called on a stack whose cache was filled before
C9_Witness ==
    /\ stk.pc = "run"
    /\ stk.was_cached
    /\ stk.o.writes = 1
    /\ stk.o.st.cached.type = "NativeTensor"
    /\ stk.res.op = "_cache"

-----------------------------------------------------------------------------
(* The equality-mode stack _EQUALITY_REDUCE and the two context managers,   *)
(* used from one thread.  An entry is "ref", "shape_and_value" or "None"    *)
(* (Python's None, the elementwise default).                                *)

MaxDepth == 6

EqualityModes == {"ref", "shape_and_value"}

\* _EQUALITY_REDUCE = [None]
EQUALITY_REDUCE_initial == <<"None">>

\* An entry that is inserted below the innermost one
equality_enter_below_top(modes, mode) ==
    SubSeq(modes, 1, Len(modes) - 1) \o <<mode, modes[Len(modes)]>>

\* _EQUALITY_REDUCE.append(mode): l.912, l.924
equality_enter(modes, mode) == Append(modes, mode)

\* A finally clause that leaves the list as it is
equality_exit_without_pop(modes, mode) ==
    [modes |-> modes, asserted |-> modes[Len(modes)] = mode]

\* finally: assert _EQUALITY_REDUCE.pop(-1) == mode: l.915-916, l.927-928.
\* The list after the pop and whether the assertion held.
equality_exit(modes, mode) ==
    [modes |-> SubSeq(modes, 1, Len(modes) - 1), asserted |-> modes[Len(modes)] = mode]

\* _EQUALITY_REDUCE[-1], as Tensor.__eq__ and __ne__ read it
equality_mode(modes) == modes[Len(modes)]

EqInit ==
    /\ op2 = Idle /\ flat = Idle /\ fc = Idle /\ race7 = Idle /\ race8 = Idle /\ stk = Idle /\ tree = Idle /\ pk = Idle
    /\ eq = [pc |-> "run", modes |-> EQUALITY_REDUCE_initial, scopes |-> <<>>,
              unwinding |-> FALSE, raised_in |-> <<>>, failed |-> FALSE]

\* with equality_by_ref(): / with equality_by_shape_and_value(): up to the yield
EqEnter ==
    \E mode \in EqualityModes :
        /\ eq.pc = "run"
        /\ ~eq.unwinding
        /\ Len(eq.scopes) < MaxDepth
        /\ eq' = [eq EXCEPT !.modes = equality_enter(eq.modes, mode),
                             !.scopes = Append(eq.scopes, mode)]
        /\ UNCHANGED <<op2, flat, fc, race7, race8, stk, tree, pk>>

\* The finally clause of the innermost scope; a failed assertion propagates
EqLeave(unwinding) ==
    LET own == eq.scopes[Len(eq.scopes)]
        x == equality_exit(eq.modes, own)
    IN  eq' = [eq EXCEPT !.modes = x.modes,
                         !.scopes = SubSeq(eq.scopes, 1, Len(eq.scopes) - 1),
                         !.failed = eq.failed \/ ~x.asserted,
                         !.unwinding = unwinding \/ ~x.asserted]

\* The body of the innermost scope ends normally
EqExit ==
    /\ eq.pc = "run"
    /\ ~eq.unwinding
    /\ eq.scopes # <<>>
    /\ EqLeave(FALSE)
    /\ UNCHANGED <<op2, flat, fc, race7, race8, stk, tree, pk>>

\* The body of the innermost scope raises
EqRaise ==
    /\ eq.pc = "run"
    /\ ~eq.unwinding
    /\ eq.scopes # <<>>
    /\ eq' = [eq EXCEPT !.unwinding = TRUE, !.raised_in = eq.scopes]
    /\ UNCHANGED <<op2, flat, fc, race7, race8, stk, tree, pk>>

\* The exception leaves the innermost scope through its finally clause
EqUnwind ==
    /\ eq.pc = "run"
    /\ eq.unwinding
    /\ eq.scopes # <<>>
    /\ EqLeave(TRUE)
    /\ UNCHANGED <<op2, flat, fc, race7, race8, stk, tree, pk>>

\* The exception is caught: by the body of an enclosing scope, or outside of
\* all scopes
EqCatch ==
    /\ eq.pc = "run"
    /\ eq.unwinding
    /\ eq' = [eq EXCEPT !.unwinding = FALSE, !.raised_in = <<>>]
    /\ UNCHANGED <<op2, flat, fc, race7, race8, stk, tree, pk>>

EqNext ==
    \/ EqEnter
    \/ EqExit
    \/ EqRaise
    \/ EqUnwind
    \/ EqCatch

SpecEq == EqInit /\ [][EqNext]_vars

\* C10: for every properly nested sequence of entries into equality_by_ref
\* and equality_by_shape_and_value in one thread, bodies that raise included,
\* each exit removes the entry its own scope pushed (the assertion holds): the
\* list is [None] followed by the modes of the open scopes, so that with no
\* scope open it is [None] and the elementwise default is in force.
C10_ScopedModes ==
    eq.pc = "run" =>
        /\ ~eq.failed
        /\ eq.modes = EQUALITY_REDUCE_initial \o eq.scopes
        /\ eq.scopes = <<>> => equality_mode(eq.modes) = "None"

\* An exception raised in a shape_and_value scope nested in a ref scope has
\* left both
C10_Witness ==
    /\ eq.pc = "run"
    /\ eq.unwinding
    /\ eq.raised_in = <<"ref", "shape_and_value">>
    /\ eq.scopes = <<>>
    /\ eq.modes = <<"None">>

-----------------------------------------------------------------------------
(* Raw values: a number, a list of numbers or of lists, a native array     *)
(* (`buf`) or an object no backend claims.                                 *)

PyNumber(v) == [type |-> "number", value |-> v]

PyList(items) == [type |-> "list", items |-> items]

NativeArray(buf) == [type |-> "array", buf |-> buf]

PyObject == [type |-> "object"]

\* choose_backend(*values): NoBackendFound when a value is claimed by no backend
choose_backend(values) ==
    IF \E v \in Range(values) : v.type \in {"object", "None"} THEN Raise("NoBackendFound")
    ELSE [type |-> "Backend"]

\* backend.as_tensor(data): the buffer of a number, of a list of numbers or of an array
as_tensor(data) ==
    CASE data.type = "number" -> Buf(<<>>, [i \in Idx(<<>>) |-> data.value])
      [] data.type = "list" -> Buf(<<Len(data.items)>>,
                                   [i \in Idx(<<Len(data.items)>>) |-> data.items[i[1] + 1].value])
      [] OTHER -> data.buf

\* compatible_tensor(data, compat_shape, compat_natives) for a raw number or
\* an object
compatible_tensor(data, compat_shape) ==
    LET converted(backend) == IF IsError(backend) THEN backend
                              ELSE NativeTensor(as_tensor(data), <<>>, <<>>)
    IN  IF IsTensor(data) THEN data
        ELSE converted(choose_backend(<<NativeArray(Buf(<<>>, <<>>)), data>>))

\* Tensor._tensor(other)
Tensor_tensor(self, other) ==
    IF IsTensor(other) THEN other ELSE compatible_tensor(other, self.shape)

\* The coercion of NativeTensor._op2 letting NoBackendFound through
NativeTensor_op2_coerce_uncaught(self, other) == Tensor_tensor(self, other)

\* The coercion of `other` at the head of NativeTensor._op2: the tensor to
\* go on with, or NotImplemented
NativeTensor_op2_coerce(self, other) ==
    LET caught(other_tensor) ==
            IF IsError(other_tensor) /\ other_tensor.error = "NoBackendFound" THEN NotImplemented
            ELSE IF IsError(other_tensor) THEN other_tensor
            ELSE IF other_tensor.type # "NativeTensor" /\ IsTensor(other) THEN NotImplemented
            ELSE other_tensor
    IN  caught(Tensor_tensor(self, other))

\* NativeTensor._op2(other, ...) for any `other`
NativeTensor_op2_any(self, other, fn) ==
    LET applied(other_tensor) ==
            IF IsTensor(other_tensor) THEN NativeTensor_op2(self, other_tensor, fn, FALSE)
            ELSE other_tensor
    IN  applied(NativeTensor_op2_coerce(self, other))

-----------------------------------------------------------------------------
(* == and != on tensors: Tensor.__eq__, Tensor.__ne__ and the NumPy ufuncs  *)
(* 'equal' and 'not_equal', evaluated inside any nesting of equality        *)
(* scopes.  Operands are objects of a pool, so that `a is b` is equality of *)
(* their positions in the pool.                                             *)

\* wrap(data) for a Python bool: tensor(data, convert=False) returns
\* NativeTensor(data, EMPTY_SHAPE), a dimensionless tensor
wrap(data) == NativeTensor(Buf(<<>>, [i \in Idx(<<>>) |-> data]), <<>>, <<>>)

\* close(a, b, rel_tolerance=0, abs_tolerance=0): every element of a equals
\* the element of b at the same named index, a plain bool
close(a, b) ==
    LET order == names(merge_shapes(a.shape, b.shape))
        all_true(x) == \A i \in DOMAIN x.data : x.data[i]
        compared(x) == IF x.err # "none" THEN Raise(x.err) ELSE all_true(x)
    IN  compared(elementwise2("eq", Tensor_native(a, order, FALSE), Tensor_native(b, order, FALSE)))

\* set(self.shape) != set(other.shape): a Shape iterates over its dimensions
shape_sets_differ(a, b) == Range(a.shape) # Range(b.shape)

\* The comparison under an override mode, shared by the four entry points;
\* negated is FALSE for == and TRUE for !=
equality_reduced(mode, self, other, same_object, negated) ==
    LET result(c) == IF c \in BOOLEAN THEN wrap(c # negated) ELSE c
    IN  IF mode = "ref" THEN wrap(same_object # negated)
        ELSE IF ~IsTensor(other) THEN Raise("AttributeError")
        ELSE IF shape_sets_differ(self, other) THEN wrap(negated)
        ELSE result(close(self, other))

\* A Python bool that is not wrapped in a tensor
PlainBool(v) == [type |-> "bool", value |-> v]

\* self._op2(other, ...) for a raw `other`: NativeTensor._op2 coerces under
\* try / except, TensorStack._op2 calls self._tensor(other) unguarded
Tensor_op2_raw(self, other, fn) ==
    LET stacked(other_tensor) == IF IsError(other_tensor) THEN other_tensor
                                 ELSE Tensor_op2(self, other_tensor, fn, FALSE)
    IN  IF self.type = "NativeTensor" THEN NativeTensor_op2_any(self, other, fn)
        ELSE stacked(Tensor_tensor(self, other))

\* The Python operators x == y and x != y for a tensor x: when x answers
\* NotImplemented and y is no tensor, object.__eq__ / __ne__ of y answers
\* NotImplemented too and Python compares the identities
PyCompare(fn, x, y, same_object) ==
    LET fallback(r) == IF r.type # "NotImplemented" THEN r
                       ELSE PlainBool(same_object = (fn = "eq"))
    IN  IF IsTensor(y) THEN PyOp(fn, x, y) ELSE fallback(Tensor_op2_raw(x, y, fn))

\* `if other is None: other = float('nan')`
none_as_nan(other) == IF other.type = "None" THEN PyNumber(NaN) ELSE other

\* A comparison that ignores the dimensions of the operands
Tensor_eq_shapes_unchecked(self, other, same_object, modes) ==
    IF equality_mode(modes) = "ref" THEN wrap(same_object)
    ELSE IF equality_mode(modes) = "shape_and_value"
    THEN LET result(c) == IF c \in BOOLEAN THEN wrap(c) ELSE c IN result(close(self, other))
    ELSE PyOp("eq", self, other)

\* Tensor.__eq__ handing None to _op2 as it is
Tensor_eq_none_unconverted(self, other, same_object, modes) ==
    IF equality_mode(modes) \in {"ref", "shape_and_value"}
    THEN equality_reduced(equality_mode(modes), self, other, same_object, FALSE)
    ELSE PyCompare("eq", self, other, same_object)

\* Tensor.__eq__
Tensor_eq(self, other, same_object, modes) ==
    IF equality_mode(modes) \in {"ref", "shape_and_value"}
    THEN equality_reduced(equality_mode(modes), self, other, same_object, FALSE)
    ELSE PyCompare("eq", self, none_as_nan(other), same_object)

\* Tensor.__ne__
Tensor_ne(self, other, same_object, modes) ==
    IF equality_mode(modes) \in {"ref", "shape_and_value"}
    THEN equality_reduced(equality_mode(modes), self, other, same_object, TRUE)
    ELSE PyCompare("ne", self, none_as_nan(other), same_object)

\* A ufunc dispatch that reads the outermost entry of the list
Tensor_array_ufunc_outermost(ufunc, input0, input1, same_object, modes) ==
    IF modes[1] \in {"ref", "shape_and_value"}
    THEN equality_reduced(modes[1], input0, input1, same_object, ufunc = "not_equal")
    ELSE Tensor_op2(input0, input1, IF ufunc = "equal" THEN "eq" ELSE "ne", FALSE)

\* Tensor.__array_ufunc__ for ufunc 'equal' / 'not_equal' with self = inputs[0]
Tensor_array_ufunc(ufunc, input0, input1, same_object, modes) ==
    IF equality_mode(modes) \in {"ref", "shape_and_value"}
    THEN equality_reduced(equality_mode(modes), input0, input1, same_object, ufunc = "not_equal")
    ELSE Tensor_op2(input0, input1, IF ufunc = "equal" THEN "eq" ELSE "ne", FALSE)

\* The operands: 1, 2 equal copies of shape (b=2, c=3); 3 of that shape
\* with other values; 4 the tensor 1 stored as (c=3, b=2); 5 of shape
\* (b=2, c=3), constant along b and stored as (c=3); 6 the stored part of 5,
\* of shape (c=3); 7 equal to 5 and fully stored; 8 a scalar; 9 of shape
\* (b=2, x=3) with the values of 1
EqOperands ==
    LET B == Dim("b", 2, "batch")
        Cc == Dim("c", 3, "channel")
        X == Dim("x", 3, "spatial")
        t1 == NativeTensor(Gen(<<2, 3>>, 0), <<B, Cc>>, <<B, Cc>>)
        t5 == NativeTensor(Gen(<<3>>, 0), <<Cc>>, <<B, Cc>>)
    IN  << t1, t1,
           NativeTensor(Gen(<<2, 3>>, 1), <<B, Cc>>, <<B, Cc>>),
           NativeTensor(transpose(t1.native, <<2, 1>>), <<Cc, B>>, <<Cc, B>>),
           t5,
           NativeTensor(t5.native, <<Cc>>, <<Cc>>),
           NativeTensor(tile(expand_dims(t5.native, <<FALSE, TRUE>>), <<2, 1>>), <<B, Cc>>, <<B, Cc>>),
           NativeTensor(Gen(<<>>, 0), <<>>, <<>>),
           NativeTensor(t1.native, <<B, X>>, <<B, X>>) >>

EqEntryPoints == {"__eq__", "__ne__", "equal", "not_equal"}

EqOpInit ==
    /\ op2 = Idle /\ flat = Idle /\ fc = Idle /\ race7 = Idle /\ race8 = Idle /\ stk = Idle /\ tree = Idle /\ pk = Idle
    /\ eq = [pc |-> "run", modes |-> EQUALITY_REDUCE_initial, scopes |-> <<>>,
              unwinding |-> FALSE, raised_in |-> <<>>, failed |-> FALSE,
              via |-> "none", a |-> 0, b |-> 0, res |-> None]

\* a == b, a != b, numpy.equal(a, b) or numpy.not_equal(a, b) in the body
\* that is running; the run is followed up to the result
EqCompare ==
    \E via \in EqEntryPoints, a \in DOMAIN EqOperands, b \in DOMAIN EqOperands :
        /\ eq.pc = "run"
        /\ ~eq.unwinding
        /\ eq' = [eq EXCEPT
                    !.pc = "compared", !.via = via, !.a = a, !.b = b,
                    !.res = CASE via = "__eq__" ->
                                   Tensor_eq(EqOperands[a], EqOperands[b], a = b, eq.modes)
                              [] via = "__ne__" ->
                                   Tensor_ne(EqOperands[a], EqOperands[b], a = b, eq.modes)
                              [] OTHER ->
                                   Tensor_array_ufunc(via, EqOperands[a], EqOperands[b], a = b, eq.modes)]
        /\ UNCHANGED <<op2, flat, fc, race7, race8, stk, tree, pk>>

EqOpNext ==
    \/ EqEnter
    \/ EqExit
    \/ EqRaise
    \/ EqUnwind
    \/ EqCatch
    \/ EqCompare

SpecEqOp == EqOpInit /\ [][EqOpNext]_vars

\* The mode of the innermost scope that is open, "None" without one
InnermostScope == IF eq.scopes = <<>> THEN "None" ELSE eq.scopes[Len(eq.scopes)]

\* a and b have the same dimensions: names, kinds and sizes, in any order
SameDims(a, b) ==
    /\ NameSet(a.shape) = NameSet(b.shape)
    /\ \A i \in DOMAIN a.shape : \A j \in DOMAIN b.shape :
          a.shape[i].name = b.shape[j].name =>
              a.shape[i].size = b.shape[j].size /\ a.shape[i].type = b.shape[j].type

\* a and b have the same element at every named index
SameValues(a, b) ==
    /\ AllIndices(a) = AllIndices(b)
    /\ \A ix \in AllIndices(a) : Elem(a, ix) = Elem(b, ix)

\* r is the tensor over a's shape that holds, at every index, whether the
\* elements of a and b there are equal (negated: differ)
IsElementwiseComparison(r, a, b, negated) ==
    /\ r.type = "NativeTensor"
    /\ WellFormedNative(r)
    /\ r.shape = a.shape
    /\ \A ix \in AllIndices(a) : Elem(r, ix) = ((Elem(a, ix) = Elem(b, ix)) # negated)

EqA == EqOperands[eq.a]

EqB == EqOperands[eq.b]

EqNegated == eq.via \in {"__ne__", "not_equal"}

\* C11 as stated: in a shape-and-value scope == returns a plain bool, true
\* exactly when the operands have the same shape and equal values, and != its
\* negation; without a scope, == on equal-shaped operands returns the
\* elementwise boolean tensor of that shape.
C11_PlainBoolean ==
    (eq.pc = "compared" /\ eq.via \in {"__eq__", "__ne__"}) =>
        /\ InnermostScope = "shape_and_value" =>
              eq.res = PlainBool((EqA.shape = EqB.shape /\ SameValues(EqA, EqB)) # EqNegated)
        /\ (InnermostScope = "None" /\ EqA.shape = EqB.shape /\ eq.via = "__eq__") =>
              IsElementwiseComparison(eq.res, EqA, EqB, FALSE)

\* C11, amended: in a shape-and-value scope == returns a dimensionless tensor
\* (the bool wrapped by wrap(), which bool() converts) that holds true exactly
\* when the operands have the same dimensions (names, kinds and sizes, in any
\* order) and equal elements at every named index, and != returns the tensor
\* holding the negation; without a scope, == on equal-shaped operands returns
\* the elementwise boolean tensor of that shape.
C11_DimensionlessTensor ==
    (eq.pc = "compared" /\ eq.via \in {"__eq__", "__ne__"}) =>
        /\ InnermostScope = "shape_and_value" =>
              /\ eq.res.type = "NativeTensor" /\ eq.res.shape = <<>> /\ WellFormedNative(eq.res)
              /\ eq.res.native.data[<<>>]
                    = ((SameDims(EqA, EqB) /\ SameValues(EqA, EqB)) # EqNegated)
        /\ (InnermostScope = "None" /\ EqA.shape = EqB.shape /\ eq.via = "__eq__") =>
              IsElementwiseComparison(eq.res, EqA, EqB, FALSE)

\* Inside a shape-and-value scope nested in a reference scope, t1 == t4 has
\* been evaluated for t4 holding t1's elements in the other dimension order
C11_Witness ==
    /\ eq.pc = "compared" /\ eq.via = "__eq__"
    /\ eq.scopes = <<"ref", "shape_and_value">>
    /\ eq.a = 1 /\ eq.b = 4
    /\ eq.res = wrap(TRUE)

\* C12: whichever way == or != is evaluated (Tensor.__eq__, Tensor.__ne__,
\* the ufuncs 'equal' and 'not_equal'), the result is the one of the mode of
\* the innermost scope that is still open, whatever was entered and left
\* before: by identity in a reference scope, by dimensions and values in a
\* shape-and-value scope, and the elementwise broadcast comparison when no
\* scope is open.
C12_InnermostMode ==
    eq.pc = "compared" =>
        CASE InnermostScope = "ref" -> eq.res = wrap((eq.a = eq.b) # EqNegated)
          [] InnermostScope = "shape_and_value" ->
                eq.res = wrap((SameDims(EqA, EqB) /\ SameValues(EqA, EqB)) # EqNegated)
          [] OTHER ->
                /\ eq.scopes = <<>>
                /\ eq.res.type = "NativeTensor"
                /\ IsBroadcastOf(eq.res, IF EqNegated THEN "ne" ELSE "eq", EqA, EqB)

\* numpy.not_equal of two equal copies, evaluated in a reference scope that
\* is nested in a shape-and-value scope: the copies are not the same object
C12_Witness ==
    /\ eq.pc = "compared" /\ eq.via = "not_equal"
    /\ eq.scopes = <<"shape_and_value", "ref">>
    /\ eq.a = 1 /\ eq.b = 2
    /\ eq.res = wrap(TRUE)

-----------------------------------------------------------------------------
(* Two threads on the one process-wide list _EQUALITY_REDUCE.  Each enters  *)
(* one scope, may evaluate == in its body and exits.  list.append and       *)
(* list.pop are single steps; Tensor.__eq__ reads _EQUALITY_REDUCE[-1] once *)
(* at l.654 and, unless that read gave 'ref', again at l.656.               *)

Threads == {1, 2}

OtherThread(i) == 3 - i

EqThreadsInit ==
    /\ op2 = Idle /\ flat = Idle /\ fc = Idle /\ race7 = Idle /\ race8 = Idle /\ stk = Idle /\ tree = Idle /\ pk = Idle
    /\ \E m \in [Threads -> EqualityModes] :
        /\ m[1] # m[2]
        /\ eq = [pc |-> "threads", modes |-> EQUALITY_REDUCE_initial, log |-> <<>>,
                  th |-> [i \in Threads |->
                            [at |-> "start", mode |-> m[i], used |-> "none",
                             alone |-> TRUE, failed |-> FALSE]]]

\* The other thread is outside of its scope and its exit has not failed
OtherOutside(i) ==
    /\ eq.th[OtherThread(i)].at \in {"start", "done"}
    /\ ~eq.th[OtherThread(i)].failed

\* _EQUALITY_REDUCE.append(mode): l.912 / l.924
ThreadEnter(i) ==
    /\ eq.pc = "threads"
    /\ eq.th[i].at = "start"
    /\ eq' = [eq EXCEPT !.modes = equality_enter(eq.modes, eq.th[i].mode),
                         !.log = Append(eq.log, <<"enter", i>>),
                         !.th[i].at = "body"]
    /\ UNCHANGED <<op2, flat, fc, race7, race8, stk, tree, pk>>

\* a == b in the body: if _EQUALITY_REDUCE[-1] == 'ref', l.654
ThreadEqTestRef(i) ==
    /\ eq.pc = "threads"
    /\ eq.th[i].at = "body"
    /\ eq' = [eq EXCEPT !.th[i].alone = OtherOutside(i),
                         !.th[i].used = IF equality_mode(eq.modes) = "ref" THEN "ref" ELSE "none",
                         !.th[i].at = IF equality_mode(eq.modes) = "ref" THEN "compared" ELSE "l656"]
    /\ UNCHANGED <<op2, flat, fc, race7, race8, stk, tree, pk>>

\* elif _EQUALITY_REDUCE[-1] == 'shape_and_value', l.656; otherwise the
\* elementwise comparison of l.661-663
ThreadEqTestShapeAndValue(i) ==
    /\ eq.pc = "threads"
    /\ eq.th[i].at = "l656"
    /\ eq' = [eq EXCEPT !.th[i].alone = eq.th[i].alone /\ OtherOutside(i),
                         !.th[i].used = IF equality_mode(eq.modes) = "shape_and_value"
                                        THEN "shape_and_value" ELSE "None",
                         !.th[i].at = "compared"]
    /\ UNCHANGED <<op2, flat, fc, race7, race8, stk, tree, pk>>

\* finally: assert _EQUALITY_REDUCE.pop(-1) == mode, l.915-916 / l.927-928,
\* from a body with or without a comparison
ThreadExit(i) ==
    /\ eq.pc = "threads"
    /\ eq.th[i].at \in {"body", "compared"}
    /\ eq' = [eq EXCEPT !.modes = equality_exit(eq.modes, eq.th[i].mode).modes,
                         !.log = Append(eq.log, <<"exit", i>>),
                         !.th[i].failed = ~equality_exit(eq.modes, eq.th[i].mode).asserted,
                         !.th[i].at = "done"]
    /\ UNCHANGED <<op2, flat, fc, race7, race8, stk, tree, pk>>

EqThreadsNext ==
    \E i \in Threads :
        \/ ThreadEnter(i)
        \/ ThreadEqTestRef(i)
        \/ ThreadEqTestShapeAndValue(i)
        \/ ThreadExit(i)

SpecEqThreads == EqThreadsInit /\ [][EqThreadsNext]_vars

\* C13 as stated: in every interleaving each exit pops its own thread's entry
\* (no assertion fails) and == in a scope uses the mode its thread entered.
C13_OwnEntryPopped ==
    eq.pc = "threads" =>
        \A i \in Threads :
            /\ ~eq.th[i].failed
            /\ eq.th[i].used # "none" => eq.th[i].used = eq.th[i].mode

\* The thread that entered its scope first has left it while the other
\* thread was inside its own
Crossed ==
    \E p, q, r \in DOMAIN eq.log :
        /\ p < q /\ q < r
        /\ eq.log[p][1] = "enter" /\ eq.log[q][1] = "enter" /\ eq.log[r][1] = "exit"
        /\ eq.log[p][2] = eq.log[r][2] /\ eq.log[q][2] # eq.log[p][2]
        /\ \A s \in DOMAIN eq.log : s < r => eq.log[s] # <<"exit", eq.log[q][2]>>

\* C13, amended: when the two scopes do not overlap, or the scope entered
\* last is left first, each exit pops the entry of its own thread and no
\* assertion fails; when the scope entered first is left first, that exit
\* pops the other thread's entry and both exit assertions fail.  A thread's
\* == uses the mode the thread entered if, whenever it reads the mode, the
\* other thread is outside of its scope and has not failed.  The list is
\* [None] once both threads are done.
C13_PopsTopEntry ==
    eq.pc = "threads" =>
        /\ \A i \in Threads :
              /\ eq.th[i].at = "done" => (eq.th[i].failed <=> Crossed)
              /\ (eq.th[i].used # "none" /\ eq.th[i].alone) => eq.th[i].used = eq.th[i].mode
        /\ (\A i \in Threads : eq.th[i].at = "done") => eq.modes = EQUALITY_REDUCE_initial

\* Both threads have compared and left; the thread that entered first left
\* first, both assertions failed, and the == of the thread that entered last
\* used the elementwise default
C13_Witness ==
    /\ eq.pc = "threads"
    /\ \A i \in Threads : eq.th[i].at = "done" /\ eq.th[i].failed
    /\ \E i \in Threads : eq.th[i].used = "None"
    /\ Crossed

-----------------------------------------------------------------------------
(* disassemble_tree / assemble_tree.  A node of a nested structure is a     *)
(* record with a kind k: "None", "Tensor" (a Tensor object: its class, its  *)
(* identity id and, for a NativeTensor, its _native), "array" (a native     *)
(* tensor of some backend), "str" (a string v; `same` tells whether it is   *)
(* the very object of a module constant, which is what `is` tests),         *)
(* "object" (any other leaf), "tuple", "list" (items) and "dict" (keys in   *)
(* insertion order, items).                                                 *)

PyNone == [k |-> "None"]

PyStr(v, same) == [k |-> "str", v |-> v, same |-> same]

\* MISSING_TENSOR = 'missing'
MISSING_TENSOR == PyStr("missing", TRUE)

\* NATIVE_TENSOR = 'native'
NATIVE_TENSOR == PyStr("native", TRUE)

\* NativeTensor(obj, shape) wrapped around a native leaf: a new object
WrappedNative(obj) == [k |-> "Tensor", cls |-> "NativeTensor", id |-> 100 + obj.id, native |-> obj]

RECURSIVE disassemble_tree(_), disassemble_items(_)

\* The for loops of l.1864-1868 and l.1872-1876: keys.append(key),
\* values.extend(value) for each item in order
disassemble_items(items) ==
    LET joined(first, others) == [keys |-> <<first.key>> \o others.keys,
                                  values |-> first.values \o others.values]
    IN  IF items = <<>> THEN [keys |-> <<>>, values |-> <<>>]
        ELSE joined(disassemble_tree(Head(items)), disassemble_items(Tail(items)))

disassemble_tree(obj) ==
    LET container(d) == [key |-> [obj EXCEPT !.items = d.keys], values |-> d.values]
    IN  CASE obj.k = "None" -> [key |-> MISSING_TENSOR, values |-> <<>>]
          [] obj.k = "Tensor" -> [key |-> PyNone, values |-> <<obj>>]
          [] obj.k \in {"tuple", "list", "dict"} -> container(disassemble_items(obj.items))
          [] obj.k = "array" -> [key |-> NATIVE_TENSOR, values |-> <<WrappedNative(obj)>>]
          [] OTHER -> [key |-> obj, values |-> <<>>]

RECURSIVE assemble_tree(_, _), assemble_items(_, _)

\* The comprehensions of l.1911-1915: each item in order, on the one list
\* `values` that every pop(0) shortens
assemble_items(items, values) ==
    LET joined(first, others) == [err |-> others.err, items |-> <<first.tree>> \o others.items,
                                  values |-> others.values]
        after(first) == IF first.err # "none"
                        THEN [err |-> first.err, items |-> <<>>, values |-> first.values]
                        ELSE joined(first, assemble_items(Tail(items), first.values))
    IN  IF items = <<>> THEN [err |-> "none", items |-> <<>>, values |-> values]
        ELSE after(assemble_tree(Head(items), values))

\* assemble_tree(obj, values): the assembled structure and what is left of
\* the list `values`, or the exception raised
assemble_tree(obj, values) ==
    LET failed(e, rest) == [err |-> e, tree |-> PyNone, values |-> rest]
        container(d) == [err |-> d.err, tree |-> [obj EXCEPT !.items = d.items], values |-> d.values]
    IN  IF obj = MISSING_TENSOR THEN [err |-> "none", tree |-> PyNone, values |-> values]
        ELSE IF obj = NATIVE_TENSOR
        THEN IF values = <<>> THEN failed("IndexError", values)
             ELSE IF Head(values).cls # "NativeTensor" THEN failed("AssertionError", Tail(values))
             ELSE [err |-> "none", tree |-> Head(values).native, values |-> Tail(values)]
        ELSE IF obj.k = "None"
        THEN IF values = <<>> THEN failed("IndexError", values)
             ELSE [err |-> "none", tree |-> Head(values), values |-> Tail(values)]
        ELSE IF obj.k \in {"list", "tuple", "dict"} THEN container(assemble_items(obj.items, values))
        ELSE [err |-> "none", tree |-> obj, values |-> values]

MaxTreeDepth == 2
MaxItems == 2

\* Leaves: None, a NativeTensor, a TensorStack, a native array, the string
\* 'missing' both as the object of the module constant (equal literals are
\* interned to one object) and as an equal string built at run time, and
\* the string 'native' as the object of the module constant
TreeLeaves ==
    {PyNone,
     [k |-> "Tensor", cls |-> "NativeTensor", id |-> 1, native |-> [k |-> "array", id |-> 11]],
     [k |-> "Tensor", cls |-> "TensorStack", id |-> 2],
     [k |-> "array", id |-> 3],
     PyStr("missing", TRUE),
     PyStr("missing", FALSE),
     PyStr("native", TRUE)}

\* The keys of a dict of n entries, in insertion order
DictKeys(n) == [i \in 1..n |-> <<"a", "b", "c">>[i]]

RECURSIVE Trees(_)
Trees(depth) ==
    IF depth = 0 THEN TreeLeaves
    ELSE LET below == Trees(depth - 1)
             lists == UNION {[1..n -> below] : n \in 0..MaxItems}
         IN  below
             \cup {[k |-> kind, items |-> l] : kind \in {"tuple", "list"}, l \in lists}
             \cup {[k |-> "dict", keys |-> DictKeys(Len(l)), items |-> l] : l \in lists}

TreeInit ==
    /\ op2 = Idle /\ flat = Idle /\ fc = Idle /\ race7 = Idle /\ race8 = Idle /\ stk = Idle
    /\ eq = Idle /\ pk = Idle
    /\ \E x \in Trees(MaxTreeDepth) :
          tree = [pc |-> "start", x |-> x, skeleton |-> PyNone, tensors |-> <<>>,
                  res |-> [err |-> "none", tree |-> PyNone, values |-> <<>>]]

\* skeleton, tensors = disassemble_tree(x)
TreeDisassemble ==
    /\ tree.pc = "start"
    /\ tree' = [tree EXCEPT !.pc = "disassembled",
                            !.skeleton = disassemble_tree(tree.x).key,
                            !.tensors = disassemble_tree(tree.x).values]
    /\ UNCHANGED <<op2, flat, fc, race7, race8, stk, eq, pk>>

\* y = assemble_tree(skeleton, tensors)
TreeAssemble ==
    /\ tree.pc = "disassembled"
    /\ tree' = [tree EXCEPT !.pc = "assembled",
                            !.res = assemble_tree(tree.skeleton, tree.tensors)]
    /\ UNCHANGED <<op2, flat, fc, race7, race8, stk, eq, pk>>

TreeNext ==
    \/ TreeDisassemble
    \/ TreeAssemble

SpecTree == TreeInit /\ [][TreeNext]_vars

\* C14 as stated: assembling what disassemble_tree returned gives back the
\* structure: the same containers, the same Tensor objects at the same
\* positions and every other leaf unchanged, leaf strings included.
C14_RoundTrip ==
    tree.pc = "assembled" => (tree.res.err = "none" /\ tree.res.tree = tree.x)

RECURSIVE HasSentinelString(_)
\* The structure holds the object of MISSING_TENSOR or NATIVE_TENSOR as a leaf
HasSentinelString(x) ==
    IF x.k \in {"tuple", "list", "dict"} THEN \E i \in DOMAIN x.items : HasSentinelString(x.items[i])
    ELSE x \in {MISSING_TENSOR, NATIVE_TENSOR}

\* The round trip holds for every structure without such a leaf
C14_RoundTripWithoutSentinels ==
    (tree.pc = "assembled" /\ ~HasSentinelString(tree.x)) =>
        (tree.res.err = "none" /\ tree.res.tree = tree.x)

RECURSIVE TensorLeaves(_), TensorLeavesOfItems(_)
\* The tensors of a structure, depth first and left to right; a native leaf
\* counts as the tensor wrapped around it
TensorLeavesOfItems(items) ==
    IF items = <<>> THEN <<>> ELSE TensorLeaves(Head(items)) \o TensorLeavesOfItems(Tail(items))

TensorLeaves(x) ==
    IF x.k \in {"tuple", "list", "dict"} THEN TensorLeavesOfItems(x.items)
    ELSE IF x.k = "Tensor" THEN <<x>>
    ELSE IF x.k = "array" THEN <<WrappedNative(x)>>
    ELSE <<>>

\* C15 as stated: disassemble_tree lists the tensors depth first and left to
\* right, and assemble_tree on the skeleton takes them from the front in that
\* order, exactly as many as were listed: it does not run out of tensors, none
\* is left over, and each is back at its position.
C15_SameOrderAndCount ==
    /\ tree.pc \in {"disassembled", "assembled"} => tree.tensors = TensorLeaves(tree.x)
    /\ tree.pc = "assembled" =>
          /\ tree.res.err = "none"
          /\ tree.res.values = <<>>
          /\ TensorLeaves(tree.res.tree) = tree.tensors

\* The same for every structure without a sentinel string as a leaf
C15_SameOrderAndCountWithoutSentinels ==
    ~HasSentinelString(tree.x) => C15_SameOrderAndCount

-----------------------------------------------------------------------------
(* Packing and unpacking dimensions: Tensor.__pack_dims__ and               *)
(* Tensor.__unpack_dim__                                                    *)

RECURSIVE SeqProd(_)
SeqProd(s) == IF s = <<>> THEN 1 ELSE Head(s) * SeqProd(Tail(s))

\* Shape.volume
volume(shape) == SeqProd(sizes(shape))

\* Position of index tuple i in a row-major buffer of the given sizes
RECURSIVE RowMajor(_, _)
RowMajor(i, szs) ==
    IF i = <<>> THEN 0
    ELSE RowMajor(SubSeq(i, 1, Len(i) - 1), SubSeq(szs, 1, Len(szs) - 1)) * szs[Len(szs)] + i[Len(i)]

\* backend.reshape(x, sizes): the elements in row-major order; the number of
\* elements must stay the same
reshape(x, new_sizes) ==
    IF x.err # "none" THEN x
    ELSE IF SeqProd(new_sizes) # SeqProd(x.sizes) THEN ErrBuf("ValueError")
    ELSE Buf(new_sizes,
             [j \in Idx(new_sizes) |->
                 x.data[CHOOSE i \in Idx(x.sizes) : RowMajor(i, x.sizes) = RowMajor(j, new_sizes)]])

\* min(self.shape.indices(dims))
RECURSIVE SeqMin(_)
SeqMin(s) == IF Len(s) = 1 THEN s[1] ELSE Min2(s[1], SeqMin(Tail(s)))

\* Shape._expand(dim, pos): dim inserted before 0-based position pos
shape_expand(shape, dim, pos) ==
    SubSeq(shape, 1, pos) \o <<dim>> \o SubSeq(shape, pos + 1, Len(shape))

\* Shape._order_group(names): the names of the shape with the group
\* clustered, in the order of the group, where its first member stands
order_group(shape, group) ==
    LET RECURSIVE from(_, _)
        from(k, result) ==
            IF k > Len(shape) THEN result
            ELSE IF shape[k].name \in Range(result) THEN from(k + 1, result)
            ELSE IF shape[k].name \in Range(group) THEN from(k + 1, result \o group)
            ELSE from(k + 1, Append(result, shape[k].name))
    IN  from(1, <<>>)

\* A __pack_dims__ that reshapes the buffer in the order of the shape
Tensor_pack_dims_unordered(self, dims, packed_dim) ==
    LET pos == SeqMin([k \in DOMAIN dims |-> index(self.shape, dims[k])]) - 1
        new_shape == shape_expand(without(self.shape, Range(dims)),
                                  [packed_dim EXCEPT !.size = volume(only(self.shape, Range(dims)))],
                                  pos)
        wrapped(native) == IF native.err # "none" THEN Raise(native.err)
                           ELSE NativeTensor(native, new_shape, new_shape)
    IN  wrapped(reshape(Tensor_native(self, names(self.shape), FALSE), sizes(new_shape)))

\* Tensor.__pack_dims__(dims, packed_dim, pos=None) of a uniform tensor
\* (l.526-532); a non-uniform tensor is packed by concat_tensor (l.533-541)
Tensor_pack_dims(self, dims, packed_dim) ==
    LET pos == SeqMin([k \in DOMAIN dims |-> index(self.shape, dims[k])]) - 1
        new_shape == shape_expand(without(self.shape, Range(dims)),
                                  [packed_dim EXCEPT !.size = volume(only(self.shape, Range(dims)))],
                                  pos)
        wrapped(native) == IF native.err # "none" THEN Raise(native.err)
                           ELSE NativeTensor(native, new_shape, new_shape)
    IN  wrapped(reshape(Tensor_native(self, order_group(self.shape, dims), FALSE), sizes(new_shape)))

\* tensors[o::step] for 0-based o, as a list
StridedSlice(tensors, o, step) ==
    [k \in 1..((Len(tensors) - o + step - 1) \div step) |-> tensors[o + (k - 1) * step + 1]]

\* The loop of l.518-520 from the k-th unpacked dimension on
RECURSIVE unpack_stacked(_, _, _)
unpack_stacked(tensors, unpacked_dims, k) ==
    IF k > Len(unpacked_dims) \/ (\E c \in DOMAIN tensors : IsError(tensors[c])) THEN tensors
    ELSE unpack_stacked(
            [o \in 1..(Len(tensors) \div unpacked_dims[k].size) |->
                TensorStack(StridedSlice(tensors, o - 1, Len(tensors) \div unpacked_dims[k].size),
                            unpacked_dims[k])],
            unpacked_dims, k + 1)

\* Tensor.__unpack_dim__(dim, unpacked_dims)
Tensor_unpack_dim(self, dim, unpacked_dims) ==
    LET i == index(self.shape, dim) - 1
        new_shape == SubSeq(self.shape, 1, i) \o unpacked_dims
                        \o SubSeq(self.shape, i + 2, Len(self.shape))
        wrapped(native) == IF native.err # "none" THEN Raise(native.err)
                           ELSE NativeTensor(native, new_shape, new_shape)
        single(tensors) ==
            IF \E c \in DOMAIN tensors : IsError(tensors[c])
            THEN tensors[CHOOSE c \in DOMAIN tensors : IsError(tensors[c])]
            ELSE IF Len(tensors) # 1 THEN Raise("AssertionError")
            ELSE tensors[1]
    IN  IF is_uniform(self.shape)
        THEN wrapped(reshape(Tensor_native(self, names(self.shape), FALSE), sizes(new_shape)))
        ELSE IF dim = self.stack_dim.name THEN single(unpack_stacked(self.tensors, unpacked_dims, 1))
        ELSE Raise("NotImplementedError")

\* The dimensions uniform tensors to pack are built from
PackDims == {Dim("b", 2, "batch"), Dim("c", 3, "channel"), Dim("x", 2, "spatial")}

MaxPackRank == 3

PackShapes == {sh \in ShapesOver(PackDims, MaxPackRank) : UniqueNames(sh) /\ sh # <<>>}

\* Flat tensors of these shapes, fully stored in the logical or the reversed
\* order or constant along some dimensions, and the stacks of the inputs
PackTensors ==
    UNION {{NativeTensor(Gen(sizes(ns), 0), ns, sh) : ns \in NativeShapesOf(sh)} : sh \in PackShapes}
    \cup Stacks(0)

\* The groups of a shape: its dimension names, any number in any order
Groups(shape) ==
    {g \in UNION {[1..n -> NameSet(shape)] : n \in 1..Len(shape)} :
        \A i, j \in DOMAIN g : g[i] = g[j] => i = j}

\* Target dimensions of an unpacking: u alone or u and v, of sizes 1..MaxSize
UnpackTargets ==
    {<<Dim("u", k, "spatial")>> : k \in 1..MaxSize}
    \cup {<<Dim("u", k, "spatial"), Dim("v", l, "spatial")>> : k \in 1..MaxSize, l \in 1..MaxSize}

PackInit ==
    /\ op2 = Idle /\ flat = Idle /\ fc = Idle /\ race7 = Idle /\ race8 = Idle /\ stk = Idle
    /\ eq = Idle /\ tree = Idle
    /\ \E t \in PackTensors :
          pk = [pc |-> "start", t |-> t, g |-> <<>>, packed |-> None,
                dim |-> "", targets |-> <<>>, res |-> None]

\* packed = t.__pack_dims__(g, instance(p), pos=None) for a uniform t
PkPack ==
    \E g \in Groups(pk.t.shape) :
        /\ pk.pc = "start"
        /\ is_uniform(pk.t.shape)
        /\ pk' = [pk EXCEPT !.pc = "packed", !.g = g,
                            !.packed = Tensor_pack_dims(pk.t, g, Dim("p", 0, "instance"))]
        /\ UNCHANGED <<op2, flat, fc, race7, race8, stk, eq, tree>>

\* res = packed.__unpack_dim__('p', the dimensions of g)
PkUnpackPacked ==
    /\ pk.pc = "packed"
    /\ IsTensor(pk.packed)
    /\ pk' = [pk EXCEPT !.pc = "unpacked", !.dim = "p",
                        !.targets = only_reorder(pk.t.shape, pk.g),
                        !.res = Tensor_unpack_dim(pk.packed, "p", only_reorder(pk.t.shape, pk.g))]
    /\ UNCHANGED <<op2, flat, fc, race7, race8, stk, eq, tree>>

\* res = t.__unpack_dim__(dim, targets) for a dimension of t and any targets
PkUnpackInto ==
    \E dim \in NameSet(pk.t.shape), targets \in UnpackTargets :
        /\ pk.pc = "start"
        /\ pk' = [pk EXCEPT !.pc = "unpacked_into", !.dim = dim, !.targets = targets,
                            !.res = Tensor_unpack_dim(pk.t, dim, targets)]
        /\ UNCHANGED <<op2, flat, fc, race7, race8, stk, eq, tree>>

PackNext ==
    \/ PkPack
    \/ PkUnpackPacked
    \/ PkUnpackInto

SpecPack == PackInit /\ [][PackNext]_vars

\* C16 as stated: unpacking what was packed gives a tensor with the shape of
\* T (the same dimensions in the same order) and the same element at every
\* index, for every group g of dimensions of T in any order and position.
C16_SameShape ==
    pk.pc = "unpacked" =>
        /\ IsTensor(pk.res)
        /\ pk.res.shape = pk.t.shape
        /\ SameValues(pk.res, pk.t)

\* C16, amended: unpacking what was packed gives a tensor with the
\* dimensions of T (names, kinds and sizes) and the same element at every
\* named index; the dimensions of g stand next to each other in the order of
\* g where the first of them stood in T.shape and the other dimensions keep
\* their order, so that the order of T.shape is kept exactly when g is a
\* contiguous run of T.shape.
C16_SameDimsAndValues ==
    pk.pc = "unpacked" =>
        LET first == SeqMin([k \in DOMAIN pk.g |-> index(pk.t.shape, pk.g[k])])
            others(shape) == Filter(names(shape), NameSet(shape) \ Range(pk.g))
        IN  /\ pk.res.type = "NativeTensor"
            /\ WellFormedNative(pk.res)
            /\ SameDims(pk.res, pk.t)
            /\ SameValues(pk.res, pk.t)
            /\ SubSeq(names(pk.res.shape), first, first + Len(pk.g) - 1) = pk.g
            /\ others(pk.res.shape) = others(pk.t.shape)
            /\ pk.res.shape = pk.t.shape
                  <=> SubSeq(names(pk.t.shape), first, first + Len(pk.g) - 1) = pk.g

\* T of shape (b=2, c=3, x=2), stored as (x, c, b), with the group (x, b)
\* packed and unpacked: the result has the shape (x=2, b=2, c=3)
C16_Witness ==
    /\ pk.pc = "unpacked"
    /\ names(pk.t.shape) = <<"b", "c", "x">> /\ names(pk.t.native_shape) = <<"x", "c", "b">>
    /\ pk.g = <<"x", "b">>
    /\ names(pk.packed.shape) = <<"p", "c">> /\ sizes(pk.packed.shape) = <<4, 3>>
    /\ pk.res.type = "NativeTensor"
    /\ names(pk.res.shape) = <<"x", "b", "c">>

\* The size of the dimension that is unpacked: the number of components for
\* the stack dimension of a stack
UnpackedSize ==
    IF pk.t.type = "TensorStack" /\ pk.dim = pk.t.stack_dim.name THEN Len(pk.t.tensors)
    ELSE get_size(pk.t.shape, pk.dim)

\* C17: unpacking a dimension of size N into target dimensions whose sizes do
\* not multiply to N raises, for a uniform tensor and for the stack dimension
\* of a non-uniform stack; and a stack that is returned has every target
\* dimension with the size that was asked for.
C17_MismatchFails ==
    (pk.pc = "unpacked_into"
        /\ (is_uniform(pk.t.shape) \/ pk.dim = pk.t.stack_dim.name)) =>
        /\ volume(pk.targets) # UnpackedSize => IsError(pk.res)
        /\ IsTensor(pk.res) =>
              \A k \in DOMAIN pk.targets :
                  /\ HasDim(pk.res.shape, pk.targets[k].name)
                  /\ get_size(pk.res.shape, pk.targets[k].name) = pk.targets[k].size

\* The reshape path alone: a uniform tensor
C17_UniformMismatchFails ==
    (pk.pc = "unpacked_into" /\ is_uniform(pk.t.shape)) =>
        (volume(pk.targets) # UnpackedSize <=> IsError(pk.res))

-----------------------------------------------------------------------------
(* native(order) of one flat tensor *)

\* Tuples of distinct names
OrdersWithin(S) == UNION {Orders(ns) : ns \in SUBSET S}

\* The orders native() is called with: any tuple of distinct names among the
\* dimensions of the tensor and one name it does not have
NativeOrders(t) == OrdersWithin(NameSet(t.shape) \cup {"z"})

NativeInit ==
    /\ op2 = Idle /\ fc = Idle /\ race7 = Idle /\ race8 = Idle /\ stk = Idle /\ eq = Idle /\ tree = Idle /\ pk = Idle
    /\ \E t \in FlatTensors(0) :
          flat = [pc |-> "new", t |-> t, order |-> <<>>, singleton_for_const |-> FALSE,
                  res |-> ErrBuf("none")]

\* self.native(order, singleton_for_const)
NativeCall ==
    /\ flat.pc = "new"
    /\ \E order \in NativeOrders(flat.t), singleton_for_const \in BOOLEAN :
          flat' = [flat EXCEPT !.pc = "called", !.order = order,
                               !.singleton_for_const = singleton_for_const,
                               !.res = NativeTensor_native(flat.t, order, singleton_for_const)]
    /\ UNCHANGED <<op2, fc, race7, race8, stk, eq, tree, pk>>

NativeNext == NativeCall

SpecNative == NativeInit /\ [][NativeNext]_vars

\* The order of the call leaves out a dimension of the native shape
OmitsNativeDim == \E n \in NameSet(flat.t.native_shape) : n \notin Range(flat.order)

ExpectedAxisSize(t, n, singleton_for_const) ==
    IF HasDim(t.native_shape, n) THEN get_size(t.native_shape, n)
    ELSE IF HasDim(t.shape, n) /\ ~singleton_for_const THEN get_size(t.shape, n)
    ELSE 1

C19_WitnessTransposed ==
    /\ flat.pc = "called"
    /\ flat.res.err = "none"
    /\ Len(flat.t.native_shape) = 2
    /\ flat.order = Reverse(names(flat.t.native_shape))

-----------------------------------------------------------------------------
(* _op1 of the three tensor variants *)

\* Layout.__init__
Layout(obj, shape) == [type |-> "Layout", obj |-> obj, shape |-> shape]

\* Layout._recursive_op1: raises before anything is applied
Layout_recursive_op1(obj, shape, fn) == Raise("NotImplementedError")

\* Layout._op1
Layout_op1(self, fn) ==
    LET built(obj) == IF IsError(obj) THEN obj ELSE Layout(obj, self.shape)
    IN  built(Layout_recursive_op1(self.obj, self.shape, fn))

\* Layouts of a number, of a list along b and of a list of lists along b, x
Layouts ==
    {Layout(5, <<>>),
     Layout(<<1, 2>>, <<Dim("b", 2, "batch")>>),
     Layout(<<<<1, 2>>, <<3, 4>>>>, <<Dim("b", 2, "batch"), Dim("x", 2, "spatial")>>)}

Op1Init ==
    /\ op2 = Idle /\ fc = Idle /\ race7 = Idle /\ race8 = Idle /\ stk = Idle /\ eq = Idle /\ tree = Idle /\ pk = Idle
    /\ \E t \in FlatTensors(0) \cup Stacks(0) \cup Layouts :
          flat = [pc |-> "operand", t |-> t, res |-> None]

Op1Step(variant, r) ==
    /\ flat.pc = "operand"
    /\ flat.t.type = variant
    /\ flat' = [flat EXCEPT !.pc = "applied", !.res = r]
    /\ UNCHANGED <<op2, fc, race7, race8, stk, eq, tree, pk>>

\* -t on each variant
Op1NativeTensor == Op1Step("NativeTensor", NativeTensor_op1(flat.t, "neg"))

Op1TensorStack == Op1Step("TensorStack", TensorStack_op1(flat.t, "neg"))

Op1Layout == Op1Step("Layout", Layout_op1(flat.t, "neg"))

Op1Next ==
    \/ Op1NativeTensor
    \/ Op1TensorStack
    \/ Op1Layout

SpecOp1 == Op1Init /\ [][Op1Next]_vars

\* What _op1 returned is a tensor of the shape of its receiver, and the
\* components of a stack that requires broadcast have kept their shapes
Op1KeepsShape ==
    /\ flat.res.type \in {"NativeTensor", "TensorStack", "Layout"}
    /\ flat.res.shape = flat.t.shape
    /\ (flat.t.type = "TensorStack" /\ requires_broadcast(flat.t)) =>
          /\ flat.res.type = "TensorStack"
          /\ DOMAIN flat.res.tensors = DOMAIN flat.t.tensors
          /\ \A c \in DOMAIN flat.t.tensors :
                flat.res.tensors[c].shape = flat.t.tensors[c].shape

\* C20: for a NativeTensor, a TensorStack and a Layout, _op1(f) with an
\* elementwise f returns a tensor whose shape is exactly the shape of the
\* receiver (names, kinds, sizes, order), and each component of a TensorStack
\* that requires broadcast keeps its own shape.
C20_ShapePreserved == flat.pc = "applied" => Op1KeepsShape

\* The same for the two variants that implement _op1
C20_ShapePreservedByTensors ==
    (flat.pc = "applied" /\ flat.t.type # "Layout") => Op1KeepsShape

\* Layout._op1 returns nothing: it raises NotImplementedError
C20_LayoutRaises ==
    (flat.pc = "applied" /\ flat.t.type = "Layout") =>
        (IsError(flat.res) /\ flat.res.error = "NotImplementedError")

-----------------------------------------------------------------------------
(* tensor(data, *shape).  A size of 0 in a shape handed to tensor() stands *)
(* for an undefined size (None).                                           *)

\* The last block of tensor(): the buffer of a backend wrapped with `shape`
tensor_from_native(data, shape_is_None, shape) ==
    LET szs == as_tensor(data).sizes
        default_shape == IF Len(szs) = 1 THEN <<Dim("vector", szs[1], "channel")>> ELSE <<>>
        wrapped(sh) == NativeTensor(as_tensor(data), sh, sh)
        checked(backend) ==
            IF IsError(backend) THEN Raise("ValueError")
            ELSE IF shape_is_None
            THEN (IF Len(szs) > 1 THEN Raise("AssertionError") ELSE wrapped(default_shape))
            ELSE IF Len(szs) # Len(shape) THEN Raise("IncompatibleShapes")
            ELSE IF \E k \in DOMAIN shape : shape[k].size # 0 /\ shape[k].size # szs[k]
            THEN Raise("AssertionError")
            ELSE wrapped(with_sizes(shape, szs))
    IN  checked(choose_backend(<<data>>))

\* stack(tensors, dim, expand_values=True) of tensors that share their
\* dimensions: a failed item raises first
stack_tensors(tensors, dim) == TensorStack(tensors, dim)

\* all(isinstance(d, (bool, int, float, complex)) for d in data)
all_numbers(data) == \A k \in DOMAIN data.items : data.items[k].type = "number"

RECURSIVE tensor(_, _, _)

\* tensor(data, *shape, convert=False); shape_is_None: no shape was given
tensor(data, shape_is_None, shape) ==
    LET undefined_filled == IF \E k \in DOMAIN shape : shape[k].size = 0
                            THEN with_sizes(shape, sizes(data.shape)) ELSE shape
        stack_dim(n) == IF shape_is_None THEN Dim("vector", n, "channel")
                        ELSE [shape[1] EXCEPT !.size = n]
        layout_dims == IF shape_is_None \/ shape = <<>>
                       THEN <<Dim("vector", 0, "channel")>> ELSE shape
        stacked(tensors) ==
            IF \E k \in DOMAIN tensors :
                  IsError(tensors[k]) /\ tensors[k].error \in {"IncompatibleShapes", "ValueError"}
            THEN Layout(data, layout_dims)
            ELSE stack_tensors(tensors, stack_dim(Len(tensors)))
    IN  IF IsTensor(data)
        THEN (IF shape_is_None THEN data
              ELSE NativeTensor_with_shape_replaced(data, undefined_filled))
        ELSE IF data.type = "number"
        THEN (IF ~shape_is_None /\ shape # <<>> THEN Raise("AssertionError")
              ELSE NativeTensor(as_tensor(data), <<>>, <<>>))
        ELSE IF data.type = "list" /\ ~all_numbers(data)
        THEN stacked([k \in DOMAIN data.items |->
                         tensor(data.items[k], shape_is_None,
                                IF shape_is_None THEN <<>> ELSE Tail(shape))])
        ELSE tensor_from_native(data, shape_is_None, shape)

\* An object and an array as leaves of a nested structure
ObjectLeaf == [k |-> "object", id |-> 5]

ArrayLeaf == [k |-> "array", id |-> 3]

NoBackendInit ==
    /\ op2 = Idle /\ flat = Idle /\ race7 = Idle /\ race8 = Idle /\ stk = Idle /\ eq = Idle /\ tree = Idle /\ pk = Idle
    /\ \E t \in FlatTensors(0) :
          fc = [pc |-> "raw", self |-> t, via |-> "none", data |-> PyObject, res |-> None]

NoBackendStep(via, data, res) ==
    /\ fc.pc = "raw"
    /\ fc' = [fc EXCEPT !.pc = "called", !.via = via, !.data = data, !.res = res]
    /\ UNCHANGED <<op2, flat, race7, race8, stk, eq, tree, pk>>

\* self + other for a raw other
NoBackendOp2 ==
    \E other \in {PyObject, PyNumber(1), PyNumber(2)} :
        NoBackendStep("_op2", other, NativeTensor_op2_any(fc.self, other, "add"))

\* tensor(data)
NoBackendTensor ==
    \E data \in {PyObject, PyNumber(1), PyList(<<PyNumber(1), PyNumber(2)>>), NativeArray(Gen(<<2>>, 0))} :
        NoBackendStep("tensor", data, tensor(data, TRUE, <<>>))

\* disassemble_tree(obj)
NoBackendDisassemble ==
    \E obj \in {ObjectLeaf, ArrayLeaf, [k |-> "list", items |-> <<ObjectLeaf, ArrayLeaf>>]} :
        NoBackendStep("disassemble_tree", obj, disassemble_tree(obj))

NoBackendNext ==
    \/ NoBackendOp2
    \/ NoBackendTensor
    \/ NoBackendDisassemble

SpecNoBackend == NoBackendInit /\ [][NoBackendNext]_vars

\* The value handed over was one no backend claims
Unclaimed == fc.pc = "called" /\ fc.data \in {PyObject, ObjectLeaf}

\* C21 as stated: when no backend claims the raw value, NoBackendFound
\* reaches the caller of NativeTensor._op2, tensor() and disassemble_tree.
C21_NoBackendFoundPropagates ==
    Unclaimed => (IsError(fc.res) /\ fc.res.error = "NoBackendFound")

\* C21: when no backend claims the raw value, NoBackendFound is caught where
\* it arises: NativeTensor._op2 answers NotImplemented, tensor() raises
\* ValueError and disassemble_tree keeps the object in the structure and
\* lists no tensor for it.
C21_CaughtLocally ==
    Unclaimed =>
        CASE fc.via = "_op2" -> fc.res = NotImplemented
          [] fc.via = "tensor" -> fc.res = Raise("ValueError")
          [] OTHER -> fc.res = [key |-> fc.data, values |-> <<>>]

\* A tensor of rank 2 has been added to an object no backend claims
C21_Witness == Unclaimed /\ fc.via = "_op2" /\ Len(fc.self.shape) = 2

-----------------------------------------------------------------------------
(* == and != of a tensor with None or with an object that is no tensor *)

\* The tensors compared: of shape (b=2, c=3), a scalar, a stack of two
\* tensors of shape (h=2) and a stack of tensors of shapes (x=2) and (x=3)
RawSelves ==
    LET B == Dim("b", 2, "batch")
        Cc == Dim("c", 3, "channel")
        H == Dim("h", 2, "batch")
        X(k) == <<Dim("x", k, "spatial")>>
    IN  << NativeTensor(Gen(<<2, 3>>, 0), <<B, Cc>>, <<B, Cc>>),
           NativeTensor(Gen(<<>>, 0), <<>>, <<>>),
           TensorStack(<<NativeTensor(Gen(<<2>>, 0), <<H>>, <<H>>),
                         NativeTensor(Gen(<<2>>, 10), <<H>>, <<H>>)>>, Dim("g", 0, "batch")),
           TensorStack(<<NativeTensor(Gen(<<2>>, 0), X(2), X(2)),
                         NativeTensor(Gen(<<3>>, 10), X(3), X(3))>>, Dim("g", 0, "batch")) >>

\* t == other / t != other for other None or an object, in the body that is
\* running
EqCompareRaw ==
    \E via \in {"__eq__", "__ne__"}, a \in DOMAIN RawSelves, other \in {None, PyObject} :
        /\ eq.pc = "run"
        /\ ~eq.unwinding
        /\ eq' = [eq EXCEPT
                    !.pc = "compared", !.via = via, !.a = a, !.b = other,
                    !.res = IF via = "__eq__"
                            THEN Tensor_eq(RawSelves[a], other, FALSE, eq.modes)
                            ELSE Tensor_ne(RawSelves[a], other, FALSE, eq.modes)]
        /\ UNCHANGED <<op2, flat, fc, race7, race8, stk, tree, pk>>

EqRawNext ==
    \/ EqEnter
    \/ EqExit
    \/ EqRaise
    \/ EqUnwind
    \/ EqCatch
    \/ EqCompareRaw

SpecEqRaw == EqOpInit /\ [][EqRawNext]_vars

\* C22 as stated: == and != of a tensor with None or with an object that is
\* no tensor fail in every equality mode.
C22_FailsLoudly == eq.pc = "compared" => IsError(eq.res)

\* r is a tensor of the shape of t with the value v at every index
AllElements(r, t, v) ==
    /\ IsTensor(r)
    /\ r.shape = t.shape
    /\ \A ix \in AllIndices(r) : Elem(r, ix) = v

\* C22: == and != of a tensor with None or with an object that is no tensor
\* fail only in shape-and-value mode (AttributeError).  In reference mode
\* they return the dimensionless tensor False (==) / True (!=).  In the
\* default mode None is compared as NaN, a tensor of the receiver's shape
\* that is False (==) / True (!=) everywhere, and for an object a NativeTensor
\* answers NotImplemented, so that Python returns the plain bool False (==) /
\* True (!=), while a TensorStack raises NoBackendFound.
C22_LoudOnlyInShapeAndValueMode ==
    eq.pc = "compared" =>
        LET negated == eq.via = "__ne__"
            self == RawSelves[eq.a]
        IN  CASE equality_mode(eq.modes) = "ref" -> eq.res = wrap(negated)
              [] equality_mode(eq.modes) = "shape_and_value" -> eq.res = Raise("AttributeError")
              [] eq.b = None -> AllElements(eq.res, self, negated)
              [] self.type = "NativeTensor" -> eq.res = PlainBool(negated)
              [] OTHER -> eq.res = Raise("NoBackendFound")

\* t == None has been evaluated for a tensor of shape (b=2, c=3) in the
\* default mode
C22_Witness ==
    /\ eq.pc = "compared"
    /\ eq.via = "__eq__" /\ eq.a = 1 /\ eq.b = None
    /\ equality_mode(eq.modes) \notin {"ref", "shape_and_value"}
    /\ IsTensor(eq.res)

-----------------------------------------------------------------------------
(* to_dict / from_dict *)

\* A dimension with item names
DimWithItems(n, k, t, items) ==
    [name |-> n, size |-> k, type |-> t, per |-> <<>>, item_names |-> items]

\* The item names of a dimension, <<>> for None
item_names_of(d) == IF "item_names" \in DOMAIN d THEN d.item_names ELSE <<>>

\* Shape._to_dict(include_sizes=False)
Shape_to_dict(shape) ==
    [names |-> names(shape),
     types |-> [k \in DOMAIN shape |-> shape[k].type],
     item_names |-> [k \in DOMAIN shape |-> item_names_of(shape[k])]]

\* Shape._from_dict(dict_) of a dict without sizes: every size is undefined
Shape_from_dict(dict) ==
    [k \in DOMAIN dict.names |->
        IF dict.item_names[k] = <<>> THEN Dim(dict.names[k], 0, dict.types[k])
        ELSE DimWithItems(dict.names[k], 0, dict.types[k], dict.item_names[k])]

RECURSIVE tolist(_)

\* numpy.ndarray.tolist() / .item(): a number, or the list of the slices
\* along the first axis
tolist(x) ==
    IF x.sizes = <<>> THEN PyNumber(x.data[<<>>])
    ELSE PyList([p \in 1..x.sizes[1] |-> tolist(unstack(x, 1)[p])])

RECURSIVE cached(_)

\* cached(t)
cached(t) ==
    LET wrapped(native) == IF native.err # "none" THEN Raise(native.err)
                           ELSE NativeTensor(native, t.shape, t.shape)
        stacked(natives) == wrapped(stack(natives, index(t.shape, t.stack_dim.name)))
        materialized(inners) ==
            IF requires_broadcast(t) THEN TensorStack(inners, t.stack_dim)
            ELSE stacked([c \in DOMAIN inners |->
                            Tensor_native(inners[c], names(inners[c].shape), FALSE)])
    IN  IF t.type = "NativeTensor" THEN NativeTensor_cached(t, TRUE, <<>>)
        ELSE IF t.type = "Layout" THEN t
        ELSE IF t.cached.type # "None" THEN t.cached
        ELSE materialized([c \in DOMAIN t.tensors |-> cached(t.tensors[c])])

\* NativeTensor._to_dict
NativeTensor_to_dict(self) ==
    [shape |-> Shape_to_dict(self.shape),
     data |-> tolist(NativeTensor_native(self, names(self.shape), FALSE))]

\* to_dict(value) for a tensor; Tensor._to_dict is cached(self)._to_dict()
to_dict(value) ==
    IF value.type = "NativeTensor" THEN NativeTensor_to_dict(value)
    ELSE NativeTensor_to_dict(cached(value))

\* from_dict reading the data without the shape
from_dict_without_shape(dict) == tensor(dict.data, TRUE, <<>>)

\* from_dict(dict_) of a dict with 'data'
from_dict(dict) == tensor(dict.data, FALSE, Shape_from_dict(dict.shape))

\* The dimensions literal tensors are built over
LiteralDims ==
    FlatDims \cup {DimWithItems("c", 3, "channel", <<"x", "y", "z">>),
                   DimWithItems("vector", 2, "channel", <<"x", "y">>)}

LiteralShapes == {sh \in ShapesOver(LiteralDims, MaxRank) : UniqueNames(sh)}

\* Tensors built from literal data: tensor(data, shape) of a number or a
\* nested list of numbers, with the sizes left to the data
LiteralTensors ==
    {tensor(tolist(Gen(sizes(sh), seed)), FALSE, with_sizes(sh, [k \in DOMAIN sh |-> 0])) :
        sh \in LiteralShapes, seed \in {0, 1}}

DictInit ==
    /\ op2 = Idle /\ flat = Idle /\ race7 = Idle /\ race8 = Idle /\ stk = Idle /\ eq = Idle /\ tree = Idle /\ pk = Idle
    /\ \E t \in LiteralTensors : fc = [pc |-> "built", t |-> t, dict |-> None, res |-> None]

\* d = to_dict(t)
DictSave ==
    /\ fc.pc = "built"
    /\ fc' = [fc EXCEPT !.pc = "saved", !.dict = to_dict(fc.t)]
    /\ UNCHANGED <<op2, flat, race7, race8, stk, eq, tree, pk>>

\* from_dict(d)
DictLoad ==
    /\ fc.pc = "saved"
    /\ fc' = [fc EXCEPT !.pc = "loaded", !.res = from_dict(fc.dict)]
    /\ UNCHANGED <<op2, flat, race7, race8, stk, eq, tree, pk>>

DictNext ==
    \/ DictSave
    \/ DictLoad

SpecDict == DictInit /\ [][DictNext]_vars

\* C23: for every tensor T built from literal data (a number or a nested
\* list of numbers with a shape, item names included), from_dict(to_dict(T))
\* is a tensor with the shape of T (names, kinds, sizes, item names) and the
\* element of T at every index.
C23_RoundTrip ==
    fc.pc = "loaded" =>
        /\ IsTensor(fc.res)
        /\ fc.res.shape = fc.t.shape
        /\ Meaning(fc.res) = Meaning(fc.t)

\* A tensor of rank 2 whose first dimension has item names has been saved
\* and loaded
C23_Witness ==
    /\ fc.pc = "loaded"
    /\ Len(fc.t.shape) = 2
    /\ item_names_of(fc.t.shape[1]) # <<>>
    /\ IsTensor(fc.res)

-----------------------------------------------------------------------------
(* One TensorStack object and its components under item assignment and the *)
(* operations that transform a tensor                                       *)

\* Tensor.__setitem__(key, value), the same for every variant
Tensor_setitem(self, key, value) == Raise("SyntaxError")

\* t[key] = value on the stack (target 0) or on its first component: the
\* call raises and assigns nothing
StackSetItem ==
    \E target \in {0, 1},
       key \in {[n \in {"g"} |-> SelInt(0)], [n \in {"x"} |-> SelSlice(0, 1)]}, value \in {1} :
        StackStep(stk.o,
                  [op |-> "__setitem__", target |-> target,
                   value |-> Tensor_setitem(IF target = 0 THEN stk.o.st ELSE stk.o.st.tensors[target],
                                            key, value)])

\* cached(t): returns t._cached or a new tensor, assigns nothing
StackCachedCopy == StackStep(stk.o, [op |-> "cached", value |-> cached(stk.o.st)])

ImmutableNext ==
    \/ StackCache
    \/ StackExpand
    \/ StackNative
    \/ StackGetItem
    \/ StackUnstack
    \/ StackOp1
    \/ StackOp2
    \/ StackSetItem
    \/ StackCachedCopy

SpecImmutable == StackInit /\ [][ImmutableNext]_vars

\* The stack as it was constructed
StackAsBuilt == TensorStack(stk.comps, Dim("g", 0, "batch"))

\* C24: the logical shape and the elements of a tensor never change after
\* construction: t[key] = value raises for the stack and for each of its
\* components, and after any sequence of _cache, _expand, native, _getitem,
\* _unstack, _op1, _op2, cached and item assignments the stack and every
\* component have the shape and the elements they were built with.
C24_Immutable ==
    stk.pc = "run" =>
        /\ stk.o.st.shape = StackAsBuilt.shape
        /\ Meaning(stk.o.st) = Meaning(StackAsBuilt)
        /\ DOMAIN stk.o.st.tensors = DOMAIN stk.comps
        /\ \A c \in DOMAIN stk.comps :
              /\ stk.o.st.tensors[c].shape = stk.comps[c].shape
              /\ Meaning(stk.o.st.tensors[c]) = Meaning(stk.comps[c])
        /\ stk.res.op = "__setitem__" => stk.res.value = Raise("SyntaxError")

\* An item of a stack whose cache is filled has been assigned to
C24_Witness ==
    /\ stk.pc = "run"
    /\ stk.res.op = "__setitem__" /\ stk.res.target = 0
    /\ stk.o.st.cached.type = "NativeTensor"

\* The components of a stack that requires broadcast have been expanded in
\* place and hold other buffers than they were built with
C24_WitnessExpanded ==
    /\ stk.pc = "run"
    /\ requires_broadcast(stk.o.st)
    /\ \E c \in DOMAIN stk.comps : stk.o.st.tensors[c] # stk.comps[c]

-----------------------------------------------------------------------------
(* tensor(data, shape) with sizes stated in the shape *)

RECURSIVE DataSizes(_)

\* The sizes of the data along its axes
DataSizes(data) ==
    IF IsTensor(data) THEN sizes(data.shape)
    ELSE IF data.type = "number" THEN <<>>
    ELSE IF data.type = "array" THEN data.buf.sizes
    ELSE <<Len(data.items)>> \o DataSizes(data.items[1])

\* The data handed to tensor(): numbers, lists of numbers, lists of lists,
\* native arrays and tensors
TensorData ==
    {PyNumber(1)}
    \cup {tolist(Gen(szs, 0)) : szs \in {<<2>>, <<3>>, <<2, 2>>, <<2, 3>>}}
    \cup {NativeArray(Gen(szs, 0)) : szs \in {<<>>, <<2>>, <<3>>, <<2, 3>>}}
    \cup {t \in FlatTensors(0) : \A k \in DOMAIN t.shape : t.shape[k].name \in {"b", "c"}}

\* The shapes handed to tensor(): dimensions u, v with a size of 2 or 3 or
\* with an undefined size
TensorShapes ==
    {sh \in ShapesOver({Dim(n, k, "batch") : n \in {"u", "v"}, k \in {0, 2, 3}}, MaxRank) :
        UniqueNames(sh)}

\* Calls that stay within the code of tensor(): a tensor is not given a
\* shape of another rank with undefined sizes (Shape.with_sizes of another
\* length), a list of lists is given at least one dimension
TensorArgs(data, shape) ==
    /\ (IsTensor(data) /\ \E k \in DOMAIN shape : shape[k].size = 0)
          => Len(shape) = Len(data.shape)
    /\ (~IsTensor(data) /\ data.type = "list" /\ ~all_numbers(data)) => Len(shape) >= 1

TensorInit ==
    /\ op2 = Idle /\ flat = Idle /\ race7 = Idle /\ race8 = Idle /\ stk = Idle /\ eq = Idle /\ tree = Idle /\ pk = Idle
    /\ \E data \in TensorData, shape \in TensorShapes :
          /\ TensorArgs(data, shape)
          /\ fc = [pc |-> "args", data |-> data, shape |-> shape, res |-> None]

\* tensor(data, shape, convert=False)
TensorCall ==
    /\ fc.pc = "args"
    /\ fc' = [fc EXCEPT !.pc = "called", !.res = tensor(fc.data, FALSE, fc.shape)]
    /\ UNCHANGED <<op2, flat, race7, race8, stk, eq, tree, pk>>

TensorNext == TensorCall

SpecTensor == TensorInit /\ [][TensorNext]_vars

\* The shape states a size that the data does not have along that dimension
SizeDisagrees(data, shape) ==
    /\ Len(shape) = Len(DataSizes(data))
    /\ \E k \in DOMAIN shape : shape[k].size # 0 /\ shape[k].size # DataSizes(data)[k]

\* C25: tensor(data, shape) fails whenever shape states a size that differs
\* from the size of data along that dimension, for a native array, a list of
\* numbers and a tensor; a shape of another rank than the data fails with
\* IncompatibleShapes; no tensor is returned whose sizes disagree with the
\* sizes stated.
C25_SizesChecked ==
    fc.pc = "called" =>
        /\ SizeDisagrees(fc.data, fc.shape) => IsError(fc.res)
        /\ Len(fc.shape) # Len(DataSizes(fc.data)) => fc.res = Raise("IncompatibleShapes")
        /\ IsTensor(fc.res) =>
              \A k \in DOMAIN fc.shape :
                  fc.shape[k].size # 0 => fc.res.shape[k].size = fc.shape[k].size

\* The same for a native array and a list of numbers
C25_ArraysChecked ==
    (fc.pc = "called" /\ ~IsTensor(fc.data) /\ fc.data.type \in {"array", "list"}
        /\ (fc.data.type = "list" => all_numbers(fc.data))) =>
        /\ SizeDisagrees(fc.data, fc.shape) => fc.res = Raise("AssertionError")
        /\ Len(fc.shape) # Len(DataSizes(fc.data)) => fc.res = Raise("IncompatibleShapes")
        /\ IsTensor(fc.res) =>
              \A k \in DOMAIN fc.shape :
                  fc.shape[k].size # 0 => fc.res.shape[k].size = fc.shape[k].size

\* A tensor is returned although the shape stated another size
C25_SizeIgnored ==
    fc.pc = "called" /\ IsTensor(fc.data) /\ SizeDisagrees(fc.data, fc.shape) /\ IsTensor(fc.res)

-----------------------------------------------------------------------------
(* _unstack(dim) against the slices along dim *)

\* Tensor._getitem, by variant
Tensor_getitem(t, selection) ==
    IF t.type = "NativeTensor" THEN NativeTensor_getitem(t, selection)
    ELSE TensorStack_getitem(t, selection)

\* The tensors to unstack: flat ones, stacks as built and stacks that hold
\* their cache
UnstackSelves ==
    FlatTensors(0) \cup Stacks(0)
    \cup {[s EXCEPT !.cached = TensorStack_cache(s)] : s \in {q \in Stacks(0) : ~requires_broadcast(q)}}

UnstackInit ==
    /\ op2 = Idle /\ fc = Idle /\ race7 = Idle /\ race8 = Idle /\ stk = Idle /\ eq = Idle /\ tree = Idle /\ pk = Idle
    /\ \E t \in UnstackSelves, dim \in {"b", "c", "x", "g", "h", "u"} :
          flat = [pc |-> "args", t |-> t, dim |-> dim, res |-> None]

\* t._unstack(dim)
UnstackCall ==
    /\ flat.pc = "args"
    /\ flat' = [flat EXCEPT !.pc = "called", !.res = Tensor_unstack(flat.t, flat.dim)]
    /\ UNCHANGED <<op2, fc, race7, race8, stk, eq, tree, pk>>

UnstackNext == UnstackCall

SpecUnstack == UnstackInit /\ [][UnstackNext]_vars

\* The slice t[{dim: j}]
SliceAt(t, dim, j) == Tensor_getitem(t, [n \in {dim} |-> SelInt(j)])

\* t.shape without dim at position j along dim: a size that differs along
\* dim is the size at j
ShapeWithoutAt(t, dim, j) ==
    LET rest == without(t.shape, {dim})
    IN  [k \in DOMAIN rest |->
            IF rest[k].size = 0 /\ t.type = "TensorStack" /\ dim = t.stack_dim.name
            THEN [rest[k] EXCEPT !.size = rest[k].per[j], !.per = <<>>]
            ELSE rest[k]]

\* What C26 states of the tensors returned for a dimension of the shape
UnstackedSlices(t, dim, u) ==
    /\ u.err = "none"
    /\ Len(u.items) = get_size(t.shape, dim)
    /\ \A j \in DOMAIN u.items :
          /\ u.items[j].shape = ShapeWithoutAt(t, dim, j)
          /\ IsTensor(SliceAt(t, dim, j - 1))
          /\ Meaning(u.items[j]) = Meaning(SliceAt(t, dim, j - 1))
          /\ (t.type = "NativeTensor" /\ ~HasDim(t.native_shape, dim)) => u.items[j].native = t.native

\* C26: for a dimension dim of t.shape, t._unstack(dim) returns size(dim)
\* tensors of shape t.shape without dim, the one at position j holding the
\* values of the slice t[{dim: j}] (and the unchanged buffer where a flat
\* tensor is only expanded along dim); for a dimension that t.shape does not
\* have, _unstack fails.
C26_Unstack ==
    flat.pc = "called" =>
        IF HasDim(flat.t.shape, flat.dim) THEN UnstackedSlices(flat.t, flat.dim, flat.res)
        ELSE flat.res.err # "none"

\* The same for the dimensions whose size is the same in every component
C26_UnstackUniformDim ==
    (flat.pc = "called" /\ (HasDim(flat.t.shape, flat.dim) => get_size(flat.t.shape, flat.dim) # 0)) =>
        IF HasDim(flat.t.shape, flat.dim) THEN UnstackedSlices(flat.t, flat.dim, flat.res)
        ELSE flat.res.err # "none"

-----------------------------------------------------------------------------
(* The two ways to materialize a stack: cached(t) and t._cache() *)

\* Stacks along g of two flat tensors with the same dimensions, listed in
\* the same or in different orders, that do not require broadcast
UniformStacks ==
    {s \in UNION {{TensorStack(<<a, b>>, Dim("g", 0, "batch")) :
                      b \in {q \in FlatTensors(20) : NameSet(q.shape) = NameSet(a.shape)}} :
                   a \in FlatTensors(10)} :
        IsTensor(s) /\ ~requires_broadcast(s)}

MaterializeInit ==
    /\ op2 = Idle /\ flat = Idle /\ race7 = Idle /\ race8 = Idle /\ stk = Idle /\ eq = Idle /\ tree = Idle /\ pk = Idle
    /\ \E t \in UniformStacks :
          fc = [pc |-> "built", built |-> t, o |-> [st |-> t, writes |-> 0],
                before |-> t, last |-> "__init__", res |-> None]

\* r = cached(t)
MaterializeCached ==
    /\ fc.pc = "built"
    /\ fc.last # "cached"
    /\ fc' = [fc EXCEPT !.last = "cached", !.before = fc.o.st, !.res = cached(fc.o.st)]
    /\ UNCHANGED <<op2, flat, race7, race8, stk, eq, tree, pk>>

\* r = t._cache()
MaterializeCache ==
    /\ fc.pc = "built"
    /\ fc.last # "_cache"
    /\ fc' = [fc EXCEPT !.last = "_cache", !.before = fc.o.st, !.o = After_cache(fc.o),
                        !.res = TensorStack_cache(fc.o.st)]
    /\ UNCHANGED <<op2, flat, race7, race8, stk, eq, tree, pk>>

MaterializeNext == MaterializeCached \/ MaterializeCache

SpecMaterialize == MaterializeInit /\ [][MaterializeNext]_vars

\* r is a flat tensor of the shape of the stack that holds, at every index,
\* the element of the component at that position along the stack dimension
Materializes(r, t) ==
    /\ IsTensor(r)
    /\ r.type = "NativeTensor"
    /\ r.shape = t.shape
    /\ WellFormedNative(r)
    /\ Meaning(r) = Meaning([t EXCEPT !.cached = None])

\* The components list their dimensions in the same order
SameOrder(t) == \A c \in DOMAIN t.tensors : names(t.tensors[c].shape) = names(t.tensors[1].shape)

\* C27: for a TensorStack t that does not require broadcast, cached(t) and
\* t._cache() both yield a flat tensor of shape t.shape with the elements of
\* the components, in whatever order the components list their dimensions;
\* cached(t) leaves t._cached as it was, t._cache() stores what it returns.
C27_PathsAgree ==
    /\ fc.last = "cached" => Materializes(fc.res, fc.built) /\ fc.o.st = fc.before
    /\ fc.last = "_cache" => Materializes(fc.res, fc.built) /\ fc.o.st.cached = fc.res

\* The same with cached(t) for components that list their dimensions in one
\* order only
C27_PathsAgreeSameOrder ==
    /\ (fc.last = "cached" /\ SameOrder(fc.built)) =>
          Materializes(fc.res, fc.built) /\ fc.o.st = fc.before
    /\ fc.last = "_cache" => Materializes(fc.res, fc.built) /\ fc.o.st.cached = fc.res

\* cached(t) returned a tensor that holds other elements than the components
C27_Transposed ==
    /\ fc.last = "cached" /\ IsTensor(fc.res) /\ fc.res.type = "NativeTensor"
    /\ fc.res.shape = fc.built.shape
    /\ Meaning(fc.res) # Meaning(fc.built)

-----------------------------------------------------------------------------
(* A TensorStack that requires broadcast, used from a single thread *)

\* Stacks along g of two flat tensors with the same dimensions that differ
\* in the size of x, the first of size 2, the second with a full buffer
RaggedComponents ==
    UNION {{<<a, b>> : b \in {q \in FlatTensors(20) :
                                 /\ NameSet(q.shape) = NameSet(a.shape)
                                 /\ q.native_shape = q.shape
                                 /\ Conflict(a.shape, q.shape)}} :
           a \in {q \in FlatTensors(10) : HasDim(q.shape, "x") /\ get_size(q.shape, "x") = 2}}

RaggedInit ==
    /\ op2 = Idle /\ flat = Idle /\ fc = Idle /\ race7 = Idle /\ race8 = Idle /\ eq = Idle /\ tree = Idle /\ pk = Idle
    /\ \E comps \in RaggedComponents :
          stk = [pc |-> "run", comps |-> comps,
                 o |-> [st |-> TensorStack(comps, Dim("g", 0, "batch")), writes |-> 0],
                 was_cached |-> FALSE, res |-> [op |-> "__init__"]]

RaggedNext ==
    \/ StackCache
    \/ StackExpand
    \/ StackNative
    \/ StackGetItem
    \/ StackUnstack
    \/ StackOp1
    \/ StackOp2

SpecRagged == RaggedInit /\ [][RaggedNext]_vars

\* The order lists the dimensions of the components as the shape of the
\* stack does: only the stack dimension is moved
OnlyStackDimMoved(self, order) ==
    names(without(self.shape, {self.stack_dim.name}))
        = Filter(order, Range(order) \ {self.stack_dim.name})

\* The buffer holds the buffers of the components, each of the sizes of its
\* component, along the axis of the stack dimension
StackedUnpadded(self, order, v) ==
    /\ v.err = "none"
    /\ \A c \in DOMAIN self.tensors :
          DropAt(v.sizes, PosOf(order, self.stack_dim.name))
             = [k \in 1..(Len(order) - 1) |->
                   get_size(self.tensors[c].shape,
                            Filter(order, Range(order) \ {self.stack_dim.name})[k])]

\* C28: a TensorStack that requires broadcast is never turned into one flat
\* buffer: _cache() returns None, no method (_cache, _expand, native,
\* _getitem, _unstack, _op1, _op2) assigns _cached, and native() on a stack
\* with a non-uniform shape fails with the assertion of l.1400, or, for an
\* order that only moves the stack dimension, fails or returns the unpadded
\* component buffers stacked.
C28_NeverFlattened ==
    (stk.pc = "run" /\ requires_broadcast(stk.o.st)) =>
        /\ stk.o.st.cached = None
        /\ stk.o.writes = 0
        /\ stk.res.op = "_cache" => stk.res.value = None
        /\ (stk.res.op = "native" /\ is_non_uniform(stk.o.st.shape)) =>
              IF OnlyStackDimMoved(stk.o.st, stk.res.order)
              THEN stk.res.value.err # "none"
                      \/ StackedUnpadded(stk.o.st, stk.res.order, stk.res.value)
              ELSE stk.res.value = ErrBuf("AssertionError")

\* native() was called on a non-uniform stack with an order that moves a
\* dimension of the components
C28_Witness ==
    /\ stk.pc = "run" /\ requires_broadcast(stk.o.st) /\ is_non_uniform(stk.o.st.shape)
    /\ stk.res.op = "native"
    /\ ~OnlyStackDimMoved(stk.o.st, stk.res.order)
    /\ stk.res.value = ErrBuf("AssertionError")

\* _cache() was called on a stack that requires broadcast
C28_WitnessCache ==
    /\ stk.pc = "run" /\ requires_broadcast(stk.o.st)
    /\ stk.res.op = "_cache" /\ stk.res.value = None

-----------------------------------------------------------------------------
(* The lists handed to assemble_tree and assemble_tensors *)

MaxValues == 3

RECURSIVE from_spec_and_natives(_, _), from_specs(_, _)

\* [cls._from_spec_and_natives(t, natives) for t in specs]: each pop(0)
\* shortens the one list `natives`
from_specs(specs, natives) ==
    LET joined(first, others) == [err |-> others.err, tensors |-> <<first.t>> \o others.tensors,
                                  natives |-> others.natives]
        after(first) == IF first.err # "none"
                        THEN [err |-> first.err, tensors |-> <<>>, natives |-> first.natives]
                        ELSE joined(first, from_specs(Tail(specs), first.natives))
    IN  IF specs = <<>> THEN [err |-> "none", tensors |-> <<>>, natives |-> natives]
        ELSE after(from_spec_and_natives(Head(specs), natives))

\* NativeTensor._from_spec_and_natives and TensorStack._from_spec_and_natives
from_spec_and_natives(spec, natives) ==
    LET stacked(d) == [err |-> d.err,
                       t |-> IF d.err = "none" THEN TensorStack(d.tensors, spec.stack_dim) ELSE None,
                       natives |-> d.natives]
    IN  IF spec.type = "NativeTensor"
        THEN IF natives = <<>> THEN [err |-> "IndexError", t |-> None, natives |-> natives]
             ELSE [err |-> "none", t |-> NativeTensor(Head(natives), spec.native_shape, spec.shape),
                   natives |-> Tail(natives)]
        ELSE stacked(from_specs(spec.tensors, natives))

\* assemble_tensors with the pops made on the list of the caller
assemble_tensors_uncopied(natives, specs) ==
    LET d == from_specs(specs, natives)
    IN  [err |-> d.err, result |-> d.tensors, caller |-> d.natives]

\* assemble_tensors(natives, specs): the tensors built, or the exception, and
\* the list of the caller after the call; the pops are made on list(natives)
assemble_tensors(natives, specs) ==
    LET local == natives
        d == from_specs(specs, local)
    IN  [err |-> d.err, result |-> d.tensors, caller |-> natives]

\* The skeletons disassemble_tree makes of structures of depth 1
Skeletons == {disassemble_tree(x).key : x \in Trees(1)}

\* Lists of up to MaxValues tensors, the one at position i with identity i
ValueLists ==
    UNION {{[i \in 1..n |-> IF cls[i] = "NativeTensor"
                            THEN [k |-> "Tensor", cls |-> "NativeTensor", id |-> i,
                                  native |-> [k |-> "array", id |-> 10 + i]]
                            ELSE [k |-> "Tensor", cls |-> "TensorStack", id |-> i]] :
               cls \in [1..n -> {"NativeTensor", "TensorStack"}]} : n \in 0..MaxValues}

\* The _spec_dict of a flat tensor of shape (b=2) and of a stack of two scalars
SpecDicts ==
    {NativeTensor_spec_dict(NativeTensor(Gen(<<2>>, 0), <<Dim("b", 2, "batch")>>, <<Dim("b", 2, "batch")>>)),
     TensorStack_spec_dict(TensorStack(<<NativeTensor(Gen(<<>>, 0), <<>>, <<>>),
                                         NativeTensor(Gen(<<>>, 0), <<>>, <<>>)>>,
                                       Dim("g", 0, "batch")))}

\* Lists of up to MaxValues native buffers, each with elements of its own
NativeLists ==
    UNION {{[i \in 1..n |-> Gen(szs[i], 10 * i)] : szs \in [1..n -> {<<>>, <<2>>}]} : n \in 0..MaxValues}

AssembleInit ==
    /\ op2 = Idle /\ flat = Idle /\ fc = Idle /\ race7 = Idle /\ race8 = Idle /\ stk = Idle
    /\ eq = Idle /\ pk = Idle
    /\ \/ \E skeleton \in Skeletons, values \in ValueLists :
             tree = [pc |-> "tree", skeleton |-> skeleton, values |-> values, res |-> None]
       \/ \E specs \in UNION {[1..n -> SpecDicts] : n \in 0..2}, natives \in NativeLists :
             tree = [pc |-> "natives", specs |-> specs, natives |-> natives, res |-> None]

\* assemble_tree(skeleton, values)
AssembleTree ==
    /\ tree.pc = "tree"
    /\ tree' = [tree EXCEPT !.pc = "tree_assembled", !.res = assemble_tree(tree.skeleton, tree.values)]
    /\ UNCHANGED <<op2, flat, fc, race7, race8, stk, eq, pk>>

\* assemble_tensors(natives, specs)
AssembleTensors ==
    /\ tree.pc = "natives"
    /\ tree' = [tree EXCEPT !.pc = "tensors_assembled",
                            !.res = assemble_tensors(tree.natives, tree.specs)]
    /\ UNCHANGED <<op2, flat, fc, race7, race8, stk, eq, pk>>

AssembleNext == AssembleTree \/ AssembleTensors

SpecAssemble == AssembleInit /\ [][AssembleNext]_vars

RECURSIVE PlacedLeaves(_, _)

\* What the assembled structure holds where the skeleton has a place for a
\* tensor (None) or for the native of one (NATIVE_TENSOR), in order
PlacedLeaves(skeleton, assembled) ==
    LET RECURSIVE of_items(_)
        of_items(k) == IF k > Len(skeleton.items) THEN <<>>
                       ELSE PlacedLeaves(skeleton.items[k], assembled.items[k]) \o of_items(k + 1)
    IN  IF skeleton = NATIVE_TENSOR THEN <<[slot |-> "native", leaf |-> assembled]>>
        ELSE IF skeleton.k = "None" THEN <<[slot |-> "tensor", leaf |-> assembled]>>
        ELSE IF skeleton.k \in {"list", "tuple", "dict"} THEN of_items(1)
        ELSE <<>>

\* `rest` is what is left of `values` after its first n items
SuffixAfter(values, n, rest) == n <= Len(values) /\ rest = SubSeq(values, n + 1, Len(values))

\* C29: assemble_tree changes the list of its caller only by removing from
\* the front, in order, the tensors it places: after a call that returns the
\* list holds the tensors that were not placed, and the k-th place of the
\* structure holds the k-th tensor of the list (or its native); after a call
\* that raises it holds a suffix of what it held.  assemble_tensors pops
\* from a copy: the list of natives of its caller is as it was.
C29_ListConsumedFromFront ==
    /\ (tree.pc = "tree_assembled" /\ tree.res.err = "none") =>
          LET placed == PlacedLeaves(tree.skeleton, tree.res.tree)
          IN  /\ SuffixAfter(tree.values, Len(placed), tree.res.values)
              /\ \A k \in DOMAIN placed :
                    placed[k].leaf = IF placed[k].slot = "native" THEN tree.values[k].native
                                     ELSE tree.values[k]
    /\ (tree.pc = "tree_assembled" /\ tree.res.err # "none") =>
          \E n \in 0..Len(tree.values) : SuffixAfter(tree.values, n, tree.res.values)
    /\ tree.pc = "tensors_assembled" => tree.res.caller = tree.natives

\* assemble_tree placed two tensors and left one on the list
C29_Witness ==
    /\ tree.pc = "tree_assembled" /\ tree.res.err = "none"
    /\ Len(PlacedLeaves(tree.skeleton, tree.res.tree)) = 2
    /\ Len(tree.res.values) = 1

\* assemble_tensors built two tensors from three natives
C29_WitnessTensors ==
    /\ tree.pc = "tensors_assembled" /\ tree.res.err = "none"
    /\ Len(tree.res.result) = 2 /\ Len(tree.natives) = 3

-----------------------------------------------------------------------------
(* BROADCAST_FORMATTER, the one BroadcastFormatter of the process, and      *)
(* Tensor.__format__.  self.values is None or a list: [is_None, items],     *)
(* an item being the tensor registered and the placeholder returned for it. *)

\* The format specs of the replacement fields: none and a float format
FormatSpecs == {"", ".2f"}

FormattedTensors == {1, 2}

\* BroadcastFormatter.__init__
BroadcastFormatter == [is_None |-> TRUE, items |-> <<>>]

\* The operands of -f - other: a number, the f-string made of the
\* placeholders of the tensors registered, and a string with a replacement
\* field for which no tensor is registered
FormatOperands == {"number", "f-string", "field-without-value"}

\* map_(other.format, *self.values): the text, or the IndexError of
\* str.format for a replacement field beyond the values
map_format(other, values) ==
    IF other = "field-without-value" THEN "IndexError" ELSE "text"

FormatterInit ==
    /\ op2 = Idle /\ flat = Idle /\ race7 = Idle /\ race8 = Idle /\ stk = Idle /\ eq = Idle /\ tree = Idle /\ pk = Idle
    /\ fc = [pc |-> "formatter", values |-> BroadcastFormatter,
             last |-> [op |-> "__init__", result |-> "self"]]

\* BroadcastFormatter.__neg__
BroadcastFormatter_neg ==
    /\ fc.pc = "formatter"
    /\ IF ~fc.values.is_None
       THEN fc' = [fc EXCEPT !.last = [op |-> "__neg__", result |-> "SyntaxError"]]
       ELSE fc' = [fc EXCEPT !.values = [is_None |-> FALSE, items |-> <<>>],
                             !.last = [op |-> "__neg__", result |-> "self"]]
    /\ UNCHANGED <<op2, flat, race7, race8, stk, eq, tree, pk>>

\* Tensor.__format__(format_spec), with register_formatted
Tensor_format ==
    /\ fc.pc = "formatter"
    /\ \E value \in FormattedTensors, format_spec \in FormatSpecs :
          IF ~fc.values.is_None
          THEN /\ Len(fc.values.items) < MaxValues
               /\ fc' = [fc EXCEPT !.values.items = Append(@, [value |-> value, format_spec |-> format_spec]),
                                   !.last = [op |-> "__format__", result |-> "placeholder"]]
          ELSE fc' = [fc EXCEPT !.last = [op |-> "__format__", result |-> "text"]]
    /\ UNCHANGED <<op2, flat, race7, race8, stk, eq, tree, pk>>

\* BroadcastFormatter.format(other), reached through __sub__
BroadcastFormatter_format ==
    /\ fc.pc = "formatter"
    /\ \E other \in FormatOperands :
          IF other = "number"
          THEN fc' = [fc EXCEPT !.last = [op |-> "format", result |-> "AssertionError"]]
          ELSE IF fc.values.is_None
          THEN fc' = [fc EXCEPT !.last = [op |-> "format", result |-> "SyntaxError"]]
          ELSE IF map_format(other, fc.values.items) # "text"
          THEN fc' = [fc EXCEPT !.last = [op |-> "format",
                                          result |-> map_format(other, fc.values.items)]]
          ELSE fc' = [fc EXCEPT !.values = BroadcastFormatter,
                                !.last = [op |-> "format", result |-> "text"]]
    /\ UNCHANGED <<op2, flat, race7, race8, stk, eq, tree, pk>>

FormatterNext == BroadcastFormatter_neg \/ Tensor_format \/ BroadcastFormatter_format

SpecFormatter == FormatterInit /\ [][FormatterNext]_vars

\* What C30 states of __neg__, of format() on an idle formatter and of
\* Tensor.__format__
ArmedAndRegistered ==
    /\ fc'.last.op = "__neg__" =>
          IF fc.values.is_None
          THEN fc'.values = [is_None |-> FALSE, items |-> <<>>] /\ fc'.last.result = "self"
          ELSE fc'.values = fc.values /\ fc'.last.result = "SyntaxError"
    /\ (fc'.last.op = "format" /\ fc.values.is_None) =>
          /\ fc'.values = fc.values
          /\ fc'.last.result \in {"SyntaxError", "AssertionError"}
    /\ fc'.last.op = "__format__" =>
          IF fc.values.is_None
          THEN fc'.values = fc.values /\ fc'.last.result = "text"
          ELSE /\ fc'.last.result = "placeholder"
               /\ Len(fc'.values.items) = Len(fc.values.items) + 1
               /\ SubSeq(fc'.values.items, 1, Len(fc.values.items)) = fc.values.items

\* C30: BROADCAST_FORMATTER is idle (values None) or armed (values a list).
\* -f arms an idle formatter and raises SyntaxError on an armed one, which
\* stays armed; format() on an idle one raises and leaves it idle;
\* Tensor.__format__ registers the tensor instead of formatting it exactly
\* while the formatter is armed; every format() call that starts armed leaves
\* the formatter idle, whether the formatting succeeds or not.
C30_FormatterProtocol ==
    [][fc.pc = "formatter" =>
         /\ ArmedAndRegistered
         /\ (fc'.last.op = "format" /\ ~fc.values.is_None) => fc'.values.is_None]_vars

\* The same, with the formatter idle after every format() call that returns
C30_IdleAfterFormatReturns ==
    [][fc.pc = "formatter" =>
         /\ ArmedAndRegistered
         /\ (fc'.last.op = "format" /\ ~fc.values.is_None /\ fc'.last.result = "text")
               => fc'.values.is_None]_vars

\* format() raised on an armed formatter and the formatter is still armed
C30_LeftArmed ==
    /\ fc.pc = "formatter"
    /\ fc.last.op = "format" /\ fc.last.result \in {"IndexError", "AssertionError"}
    /\ ~fc.values.is_None

====
